---------------------------- MODULE Spec2Model ----------------------------
(***************************************************************************)
(* A model of tuokri/sqm-calc: square matrices of integer or variable      *)
(* cells, their textual form, and the block engine that runs += and -= on  *)
(* worker threads (src/src/squarematrix.cpp, src/src/squarematrix.hpp,     *)
(* src/src/element.cpp).                                                   *)
(*                                                                         *)
(* A matrix is a record [n, elements]; elements is a sequence of rows, a   *)
(* row a sequence of cells.  A cell is [kind |-> "int", t |-> an integer]  *)
(* (IntElement) or [kind |-> "var", t |-> a character] (VariableElement).  *)
(* A text is a sequence of one-character strings.                          *)
(***************************************************************************)
EXTENDS Integers, Sequences, FiniteSets, TLC

(***************************************************************************)
(* Bounds of the model.                                                    *)
(***************************************************************************)
\* largest row size of the matrices handed to the operators
MaxN == 3
\* largest value of n_threads (std::thread::hardware_concurrency())
MaxWorkers == 2

\* The call chains: the largest matrix given, the largest matrix whose
\* text is edited, and the number of calls in a chain.
MaxDim == 3

MaxTextDim == 2

MaxCalls == 3

\* The longest chain of block() and evaluate() calls.
MaxQueries == 1

VARIABLES
    n_threads,   \* squarematrix.hpp:19, fixed at process start
    mtx,         \* squarematrix.hpp:20, 0 when free, else 1 + id of the holder
    objs,        \* the matrix objects: m1 (left), m2 (right), ret (operator+'s local)
    old,         \* objs as they were when the operator was called
    call,        \* the operator call in progress
    mainpc,      \* where the calling thread is
    blocksz,     \* t_oper locals
    blockct,
    turn,
    ends,
    spawned,     \* size of v_threads
    joined,      \* threads joined so far
    tpc,         \* per worker thread: its position in the lambda
    myturn,      \* per worker thread
    block_lhs,   \* per worker thread: pointers into *this, as flattened indices
    block_rhs,   \* per worker thread: cells of its private copy of rhs
    results,     \* per worker thread
    written,     \* per worker thread: flattened indices of *this it has swapped into
    given,       \* the text or matrix a chain of constructor and method calls starts from
    calls,       \* the calls made so far, each on the value the one before returned
    stage,       \* main.cpp: where main() is
    mainres,     \* main.cpp:30, res: what main() returns
    mstack,      \* main.cpp:32, the top is the last entry
    buffer,      \* main.cpp:33, the line read last
    valuation,   \* main.cpp:34
    out          \* what the last line read made main() print

evars == <<n_threads, mtx, objs, old, call, mainpc, blocksz, blockct, turn,
           ends, spawned, joined, tpc, myturn, block_lhs, block_rhs, results,
           written>>

vvars == <<given, calls>>

cvars == <<stage, mainres, mstack, buffer, valuation, out>>

vars == <<evars, vvars, cvars>>

Threads == 0 .. (MaxWorkers - 1)

(***************************************************************************)
(* Cells (element.hpp, element.cpp).                                       *)
(***************************************************************************)
IntElement(v) == [kind |-> "int", t |-> v]

VariableElement(c) == [kind |-> "var", t |-> c]

\* operator+(const IntElement&, const IntElement&)
IntPlus(e1, e2) == IntElement(e1.t + e2.t)

\* operator-(const IntElement&, const IntElement&)
IntMinus(e1, e2) == IntElement(e1.t - e2.t)

\* operator*(const IntElement&, const IntElement&)
IntTimes(e1, e2) == IntElement(e1.t * e2.t)

\* A Valuation (std::map<char,int>) is a function from the bound names to
\* their values.  evaluate() of a cell: err is what() of the exception.
EvaluateVariableAsZero(e, val) ==
    IF e.kind = "int" THEN [err |-> "", v |-> e.t]
    ELSE IF e.t \in DOMAIN val THEN [err |-> "", v |-> 0]
    ELSE [err |-> "Undefined variable.", v |-> 0]

\* IntElement::evaluate returns t; VariableElement::evaluate looks t up
ElementEvaluate(e, val) ==
    IF e.kind = "int" THEN [err |-> "", v |-> e.t]
    ELSE IF e.t \in DOMAIN val THEN [err |-> "", v |-> val[e.t]]
    ELSE [err |-> "Undefined variable.", v |-> 0]

(***************************************************************************)
(* Matrices (squarematrix.hpp).                                            *)
(***************************************************************************)
\* ElementarySquareMatrix(): n(0), no rows
EmptyMatrix == [n |-> 0, elements |-> <<>>]

\* The copy constructor: every cell cloned, row by row.
CopyMatrix(m) ==
    [n |-> m.n,
     elements |-> [r \in 1 .. Len(m.elements) |->
                      [c \in 1 .. Len(m.elements[r]) |-> m.elements[r][c]]]]

\* SymbolicSquareMatrix::evaluate: a new IntElement for every cell, row by
\* row; the exception of a cell's evaluate() leaves the function.
SymbolicEvaluate(m, val) ==
    IF \E r \in 1 .. Len(m.elements) : \E c \in 1 .. Len(m.elements[r]) :
          ElementEvaluate(m.elements[r][c], val).err # ""
      THEN [err |-> "Undefined variable.", m |-> EmptyMatrix]
    ELSE [err |-> "",
          m |-> [n |-> m.n,
                 elements |->
                    [r \in 1 .. Len(m.elements) |->
                       [c \in 1 .. Len(m.elements[r]) |->
                          IntElement(ElementEvaluate(m.elements[r][c], val).v)]]]]

\* ConcreteSquareMatrix::evaluate: return ConcreteSquareMatrix{*this};
ConcreteEvaluate(m, val) == [err |-> "", m |-> CopyMatrix(m)]

\* transpose(): n empty rows, then cell k of every source row is pushed
\* onto row k of the result.
RECURSIVE PushRow(_, _, _)
PushRow(acc, row, k) ==
    IF k > Len(row) THEN acc
    ELSE PushRow([acc EXCEPT ![k] = Append(acc[k], row[k])], row, k + 1)

RECURSIVE TransposeRows(_, _, _)
TransposeRows(acc, rows, r) ==
    IF r > Len(rows) THEN acc
    ELSE TransposeRows(PushRow(acc, rows[r], 1), rows, r + 1)

\* (a transpose that swaps nothing)
TransposeKeep(m) == m

Transpose(m) ==
    [n |-> m.n,
     elements |-> TransposeRows([k \in 1 .. m.n |-> <<>>], m.elements, 1)]

\* operator== of the concrete matrix: sizes, then cell by cell
MatrixEq(a, b) ==
    /\ a.n = b.n
    /\ \A r \in 1 .. Len(a.elements) :
          \A c \in 1 .. Len(a.elements[r]) :
             a.elements[r][c].t = b.elements[r][c].t

\* The rows laid end to end, as block() unrolls them.
RECURSIVE Unrolled(_)
Unrolled(rows) ==
    IF rows = <<>> THEN <<>> ELSE Head(rows) \o Unrolled(Tail(rows))

\* block() that stops at the last cell instead of throwing.
BlockClipped(m, start, step) ==
    LET m_size == m.n * m.n
        len    == Len(Unrolled(m.elements))
    IN  IF start > m_size
          THEN [err |-> "out_of_range: start", ptrs |-> <<>>]
        ELSE IF step > m_size
          THEN [err |-> "out_of_range: step", ptrs |-> <<>>]
        ELSE IF step = 0
          THEN [err |-> "", ptrs |-> <<>>]
        ELSE IF start + step > len
          THEN [err |-> "", ptrs |-> [k \in 1 .. (len - start) |-> start + k - 1]]
        ELSE [err |-> "", ptrs |-> [k \in 1 .. step |-> start + k - 1]]

\* block() with the pointers taken one cell too far.
BlockShifted(m, start, step) ==
    LET m_size == m.n * m.n
        len    == Len(Unrolled(m.elements))
    IN  IF start > m_size
          THEN [err |-> "out_of_range: start", ptrs |-> <<>>]
        ELSE IF step > m_size
          THEN [err |-> "out_of_range: step", ptrs |-> <<>>]
        ELSE IF step = 0
          THEN [err |-> "", ptrs |-> <<>>]
        ELSE IF start + step > len
          THEN [err |-> "out_of_range: at", ptrs |-> <<>>]
        ELSE [err |-> "", ptrs |-> [k \in 1 .. step |-> (start + k) % len]]

\* block() with the step = 0 return ahead of the range checks.
BlockStepFirst(m, start, step) ==
    LET m_size == m.n * m.n
        len    == Len(Unrolled(m.elements))
    IN  IF step = 0
          THEN [err |-> "", ptrs |-> <<>>]
        ELSE IF start > m_size
          THEN [err |-> "out_of_range: start", ptrs |-> <<>>]
        ELSE IF step > m_size
          THEN [err |-> "out_of_range: step", ptrs |-> <<>>]
        ELSE IF start + step > len
          THEN [err |-> "out_of_range: at", ptrs |-> <<>>]
        ELSE [err |-> "", ptrs |-> [k \in 1 .. step |-> start + k - 1]]

\* block(start, step): the pointers to cells start .. start+step-1 of the
\* unrolled matrix, as 0-based flattened indices; err names the exception.
Block(m, start, step) ==
    LET m_size == m.n * m.n
        len    == Len(Unrolled(m.elements))
    IN  IF start > m_size
          THEN [err |-> "out_of_range: start", ptrs |-> <<>>]
        ELSE IF step > m_size
          THEN [err |-> "out_of_range: step", ptrs |-> <<>>]
        ELSE IF step = 0
          THEN [err |-> "", ptrs |-> <<>>]
        ELSE IF start + step > len
          THEN [err |-> "out_of_range: at", ptrs |-> <<>>]
        ELSE [err |-> "", ptrs |-> [k \in 1 .. step |-> start + k - 1]]

\* The cell a pointer of block() refers to.
Deref(m, p) == Unrolled(m.elements)[p + 1]

\* for(auto& res : results) std::swap(**iter++, *res): the cell pointer k
\* of ptrs refers to takes result k.  The pointers of a block refer to
\* distinct cells; p is the flattened index of a cell, e its value so far.
SetCell(ptrs, res, p, e) ==
    IF \E k \in 1 .. Len(ptrs) : k <= Len(res) /\ ptrs[k] = p
      THEN res[CHOOSE k \in 1 .. Len(ptrs) : k <= Len(res) /\ ptrs[k] = p]
    ELSE e

WriteBack(m, ptrs, res) ==
    [n |-> m.n,
     elements |-> [r \in 1 .. Len(m.elements) |->
                     [c \in 1 .. Len(m.elements[r]) |->
                        SetCell(ptrs, res, (r - 1) * m.n + (c - 1), m.elements[r][c])]]]

(***************************************************************************)
(* Characters and std::stringstream extraction, as the two string          *)
(* constructors use them (squarematrix.cpp:125-289).                       *)
(***************************************************************************)
\* the range of int
IntMax == 2147483647

IntMin == (-IntMax) - 1

Digits == <<"0", "1", "2", "3", "4", "5", "6", "7", "8", "9">>

Letters ==
    {"a", "b", "c", "d", "e", "f", "g", "h", "i", "j", "k", "l", "m", "n",
     "o", "p", "q", "r", "s", "t", "u", "v", "w", "x", "y", "z",
     "A", "B", "C", "D", "E", "F", "G", "H", "I", "J", "K", "L", "M", "N",
     "O", "P", "Q", "R", "S", "T", "U", "V", "W", "X", "Y", "Z"}

IsDigit(c) == \E d \in 1 .. 10 : Digits[d] = c

DigitVal(c) == (CHOOSE d \in 1 .. 10 : Digits[d] = c) - 1

\* char c = 0
NUL == "NUL"

\* isalpha(c)
IsAlpha(c) == c \in Letters

\* what std::skipws skips
IsSpace(c) == c \in {" ", "\t", "\n", "\r"}

\* std::to_string(int): the digits are taken from the negative side, so
\* that the least int needs no negation.
RECURSIVE NegDigits(_)
NegDigits(v) ==
    LET d == (10 - (v % 10)) % 10
    IN  IF v > -10 THEN <<Digits[d + 1]>>
        ELSE NegDigits((v + d) \div 10) \o <<Digits[d + 1]>>

\* (a to_string that drops the sign)
IntToStringUnsigned(v) == IF v < 0 THEN NegDigits(v) ELSE NegDigits(-v)

IntToString(v) == IF v < 0 THEN <<"-">> \o NegDigits(v) ELSE NegDigits(-v)

\* A stream over the text s: pos is the next character to read, good is
\* good() (no eofbit, no failbit).
StreamOf(s) == [s |-> s, pos |-> 1, good |-> TRUE]

RECURSIVE SkipWs(_, _)
SkipWs(s, p) == IF p <= Len(s) /\ IsSpace(s[p]) THEN SkipWs(s, p + 1) ELSE p

\* ss >> std::skipws >> c: on a stream that is not good, or at the end of
\* the text, c keeps its value.  p is where the white space ends.
ReadCharAt(st, c, p) ==
    IF p > Len(st.s)
      THEN [st |-> [st EXCEPT !.pos = p, !.good = FALSE], c |-> c]
    ELSE [st |-> [st EXCEPT !.pos = p + 1], c |-> st.s[p]]

ExtractChar(st, c) ==
    IF ~st.good THEN [st |-> st, c |-> c]
    ELSE ReadCharAt(st, c, SkipWs(st.s, st.pos))

\* (a num_get that reads one digit)
DigitsEndOne(s, p) == IF p <= Len(s) /\ IsDigit(s[p]) THEN p + 1 ELSE p

RECURSIVE DigitsEnd(_, _)
DigitsEnd(s, p) == IF p <= Len(s) /\ IsDigit(s[p]) THEN DigitsEnd(s, p + 1) ELSE p

\* The digits s[p .. q-1] as a number of the given sign, accumulated on the
\* negative side; over is set when the number leaves the range of int.
RECURSIVE Accumulate(_, _, _, _, _)
Accumulate(s, p, q, neg, acc) ==
    IF p >= q THEN [over |-> FALSE, v |-> IF neg THEN acc ELSE -acc]
    ELSE IF acc < ((IF neg THEN IntMin ELSE -IntMax) + DigitVal(s[p]) + 9) \div 10
      THEN [over |-> TRUE, v |-> IF neg THEN IntMin ELSE IntMax]
    ELSE Accumulate(s, p + 1, q, neg, 10 * acc - DigitVal(s[p]))

\* ss >> a for int a (std::num_get): white space, an optional sign, the
\* digits.  No digit, or a number out of range, sets failbit; reaching the
\* end of the text while reading sets eofbit.  The sign and the digits read
\* are consumed either way.  p0 is where the white space ends, p1 where the
\* digits start, p2 where they end.
ReadNumber(st, p2, num) ==
    IF num.over THEN [st |-> [st EXCEPT !.pos = p2, !.good = FALSE], a |-> num.v]
    ELSE [st |-> [st EXCEPT !.pos = p2, !.good = (p2 <= Len(st.s))], a |-> num.v]

ReadDigits(st, neg, p1, p2) ==
    IF p2 = p1 THEN [st |-> [st EXCEPT !.pos = p2, !.good = FALSE], a |-> 0]
    ELSE ReadNumber(st, p2, Accumulate(st.s, p1, p2, neg, 0))

ReadSign(st, neg, p1) == ReadDigits(st, neg, p1, DigitsEnd(st.s, p1))

ReadIntAt(st, p0) ==
    IF p0 > Len(st.s) THEN [st |-> [st EXCEPT !.pos = p0, !.good = FALSE], a |-> 0]
    ELSE ReadSign(st, st.s[p0] = "-", IF st.s[p0] \in {"-", "+"} THEN p0 + 1 ELSE p0)

ExtractInt(st) ==
    IF ~st.good THEN [st |-> st, a |-> 0]
    ELSE ReadIntAt(st, SkipWs(st.s, st.pos))

\* ss.clear()
Clear(st) == [st EXCEPT !.good = TRUE]

(***************************************************************************)
(* toString (squarematrix.hpp:262-284, element.cpp:29-39).                 *)
(***************************************************************************)
ElementToString(e) == IF e.kind = "int" THEN IntToString(e.t) ELSE <<e.t>>

RECURSIVE RowToString(_, _)
RowToString(vec, firstel) ==
    IF vec = <<>> THEN <<>>
    ELSE (IF firstel THEN <<>> ELSE <<",">>) \o ElementToString(Head(vec))
            \o RowToString(Tail(vec), FALSE)

RECURSIVE RowsToString(_)
RowsToString(rows) ==
    IF rows = <<>> THEN <<>>
    ELSE <<"[">> \o RowToString(Head(rows), TRUE) \o <<"]">> \o RowsToString(Tail(rows))

toString(m) == <<"[">> \o RowsToString(m.elements) \o <<"]">>

\* operator== of the symbolic matrix: sizes, then the cells' toString()
SymbolicEq(a, b) ==
    /\ a.n = b.n
    /\ \A r \in 1 .. Len(a.elements) :
          \A c \in 1 .. Len(a.elements[r]) :
             ElementToString(a.elements[r][c]) = ElementToString(b.elements[r][c])

(***************************************************************************)
(* The string constructors.  A result is [err, m]: err is the message of   *)
(* the std::invalid_argument thrown, "" when the matrix m is built.  The   *)
(* loops hand on [err, st, c, ...]: the stream and the last character      *)
(* read.                                                                   *)
(***************************************************************************)
Thrown(msg) == [err |-> msg, m |-> EmptyMatrix]

RowThrown(msg) == [err |-> msg, st |-> StreamOf(<<>>), c |-> NUL, row |-> <<>>]

RowRead(rc, row) == [err |-> "", st |-> rc.st, c |-> rc.c, row |-> row]

LoopThrown(msg) ==
    [err |-> msg, st |-> StreamOf(<<>>), c |-> NUL, looped |-> TRUE, n |-> 0,
     elements |-> <<>>]

\* if(str_m.back() != ']')
LastIsBracket(str_m) == str_m # <<>> /\ str_m[Len(str_m)] = "]"

(***************************************************************************)
(* ElementarySquareMatrix<IntElement>(const std::string&)                  *)
(* (squarematrix.cpp:125-203).                                             *)
(***************************************************************************)
\* do { ss >> a >> c; if(!ss.good()) throw; row.push_back(a); } while(c == ',');
RECURSIVE ConcreteRow(_, _, _)
ConcreteCell(a, rc, row) ==
    IF ~rc.st.good THEN RowThrown("Invalid string.")
    ELSE IF rc.c = "," THEN ConcreteRow(rc.st, rc.c, Append(row, IntElement(a)))
    ELSE RowRead(rc, Append(row, IntElement(a)))

ConcreteCellSep(ra, c, row) == ConcreteCell(ra.a, ExtractChar(ra.st, c), row)

ConcreteRow(st, c, row) == ConcreteCellSep(ExtractInt(st), c, row)

\* while(c != ']' && ss.good()) { ... }
RECURSIVE ConcreteRows(_, _, _, _, _)
ConcreteNextRow(rc, n, elements) == ConcreteRows(rc.st, rc.c, TRUE, n, elements)

ConcretePushRow(r, n, elements) ==
    IF r.err # "" THEN LoopThrown(r.err)
    ELSE IF r.c # "]" THEN LoopThrown("Invalid string.")
    ELSE IF elements # <<>> /\ Len(r.row) # n
      THEN LoopThrown("Invalid string (row size).")
    ELSE ConcreteNextRow(ExtractChar(r.st, r.c),
                         IF elements = <<>> THEN Len(r.row) ELSE n,
                         Append(elements, r.row))

ConcreteRows(st, c, looped, n, elements) ==
    IF ~(c # "]" /\ st.good)
      THEN [err |-> "", st |-> st, c |-> c, looped |-> looped, n |-> n,
            elements |-> elements]
    ELSE IF c # "[" THEN LoopThrown("Invalid string.")
    ELSE ConcretePushRow(ConcreteRow(st, c, <<>>), n, elements)

\* The checks after the loop without the one of elements.size().
ConcreteCloseAnyHeight(str_m, l) ==
    IF l.err # "" THEN Thrown(l.err)
    ELSE IF ~l.looped THEN Thrown("Invalid string.")
    ELSE IF ~l.st.good THEN Thrown("Invalid string (bad stream).")
    ELSE IF ~LastIsBracket(str_m) THEN Thrown("Invalid string (last bracket).")
    ELSE IF ExtractChar(l.st, l.c).st.good THEN Thrown("Invalid string.")
    ELSE [err |-> "", m |-> [n |-> l.n, elements |-> l.elements]]

\* The checks after the loop without the one of looped.
ConcreteCloseUnlooped(str_m, l) ==
    IF l.err # "" THEN Thrown(l.err)
    ELSE IF Len(l.elements) # l.n THEN Thrown("Invalid string (elements size).")
    ELSE IF ~l.st.good THEN Thrown("Invalid string (bad stream).")
    ELSE IF ~LastIsBracket(str_m) THEN Thrown("Invalid string (last bracket).")
    ELSE IF ExtractChar(l.st, l.c).st.good THEN Thrown("Invalid string.")
    ELSE [err |-> "", m |-> [n |-> l.n, elements |-> l.elements]]

\* the checks after the loop
ConcreteClose(str_m, l) ==
    IF l.err # "" THEN Thrown(l.err)
    ELSE IF ~l.looped THEN Thrown("Invalid string.")
    ELSE IF Len(l.elements) # l.n THEN Thrown("Invalid string (elements size).")
    ELSE IF ~l.st.good THEN Thrown("Invalid string (bad stream).")
    ELSE IF ~LastIsBracket(str_m) THEN Thrown("Invalid string (last bracket).")
    ELSE IF ExtractChar(l.st, l.c).st.good THEN Thrown("Invalid string.")
    ELSE [err |-> "", m |-> [n |-> l.n, elements |-> l.elements]]

ConcreteLoop(str_m, r2) == ConcreteClose(str_m, ConcreteRows(r2.st, r2.c, FALSE, 0, <<>>))

ConcreteOpen(str_m, r1) ==
    IF r1.c # "[" \/ ~r1.st.good THEN Thrown("Invalid string (first bracket).")
    ELSE ConcreteLoop(str_m, ExtractChar(r1.st, r1.c))

ParseConcrete(str_m) == ConcreteOpen(str_m, ExtractChar(StreamOf(str_m), NUL))

(***************************************************************************)
(* ElementarySquareMatrix<Element>(const std::string&)                     *)
(* (squarematrix.cpp:205-289).                                             *)
(***************************************************************************)
\* do { ss >> a; if(!ss.good()) { ss.clear(); ss >> c; ... VariableElement{c} }
\*      else IntElement{a}; ss >> c; } while(c == ',');
RECURSIVE SymbolicRow(_, _, _)
SymbolicCell(e, rc, row) ==
    IF rc.c = "," THEN SymbolicRow(rc.st, rc.c, Append(row, e))
    ELSE RowRead(rc, Append(row, e))

SymbolicVariable(rv, row) ==
    IF ~rv.st.good \/ ~IsAlpha(rv.c) THEN RowThrown("Invalid string.")
    ELSE SymbolicCell(VariableElement(rv.c), ExtractChar(rv.st, rv.c), row)

SymbolicCellRead(ra, c, row) ==
    IF ~ra.st.good THEN SymbolicVariable(ExtractChar(Clear(ra.st), c), row)
    ELSE SymbolicCell(IntElement(ra.a), ExtractChar(ra.st, c), row)

SymbolicRow(st, c, row) == SymbolicCellRead(ExtractInt(st), c, row)

RECURSIVE SymbolicRows(_, _, _, _, _)
SymbolicNextRow(rc, n, elements) == SymbolicRows(rc.st, rc.c, TRUE, n, elements)

SymbolicPushRow(r, n, elements) ==
    IF r.err # "" THEN LoopThrown(r.err)
    ELSE IF r.c # "]" THEN LoopThrown("Invalid string.")
    ELSE IF elements # <<>> /\ Len(r.row) # n THEN LoopThrown("Invalid string.")
    ELSE SymbolicNextRow(ExtractChar(r.st, r.c),
                         IF elements = <<>> THEN Len(r.row) ELSE n,
                         Append(elements, r.row))

SymbolicRows(st, c, looped, n, elements) ==
    IF ~(c # "]" /\ st.good)
      THEN [err |-> "", st |-> st, c |-> c, looped |-> looped, n |-> n,
            elements |-> elements]
    ELSE IF c # "[" THEN LoopThrown("Invalid string.")
    ELSE SymbolicPushRow(SymbolicRow(st, c, <<>>), n, elements)

SymbolicClose(l) ==
    IF l.err # "" THEN Thrown(l.err)
    ELSE IF ~l.looped THEN Thrown("Invalid string.")
    ELSE IF Len(l.elements) # l.n THEN Thrown("Invalid string (elements size).")
    ELSE IF ~l.st.good THEN Thrown("Invalid string (bad stream).")
    ELSE IF ExtractChar(l.st, l.c).st.good THEN Thrown("Invalid string.")
    ELSE [err |-> "", m |-> [n |-> l.n, elements |-> l.elements]]

SymbolicLoop(r2) == SymbolicClose(SymbolicRows(r2.st, r2.c, FALSE, 0, <<>>))

SymbolicOpen(r1) ==
    IF r1.c # "[" \/ ~r1.st.good THEN Thrown("Invalid string (first bracket).")
    ELSE SymbolicLoop(ExtractChar(r1.st, r1.c))

ParseSymbolic(str_m) == SymbolicOpen(ExtractChar(StreamOf(str_m), NUL))

(***************************************************************************)
(* operator*= and operator/= (squarematrix.cpp), single-threaded.          *)
(***************************************************************************)
RECURSIVE SumElements(_, _)
SumElements(iev, sum) ==
    IF iev = <<>> THEN sum
    ELSE SumElements(Tail(iev), IntPlus(sum, Head(iev)))

\* A size check that only catches a left operand larger than the right one.
DimensionMismatchOneSided(a, m) == a.n > m.n

\* if(n != m.n) throw std::invalid_argument(...)
DimensionMismatch(a, m) == a.n # m.n

\* what() of the exception: operator*= words it without the full stop
MismatchMessage(op) ==
    IF op \in {"+", "-"} THEN "Dimension mismatch." ELSE "Dimension mismatch"

\* operator*= without m.transpose(): rows of *this against rows of m.
ProductOfRows(a, m) ==
    [n |-> a.n,
     elements |->
        [r \in 1 .. Len(a.elements) |->
           [c \in 1 .. Len(m.elements) |->
              SumElements(
                 [k \in 1 .. Len(a.elements[r]) |->
                     IntTimes(a.elements[r][k], m.elements[c][k])],
                 IntElement(0))]]]

\* operator*= storing its first row into *this before the other rows are
\* computed: an argument that is *this is read half updated.
ProductInPlace(a, m) ==
    LET DotRow(x, y, r, c) ==
            SumElements([k \in 1 .. Len(x.elements[r]) |->
                            IntTimes(x.elements[r][k], y.elements[k][c])],
                        IntElement(0))
        first == [c \in 1 .. a.n |-> DotRow(a, m, 1, c)]
        a1    == [a EXCEPT !.elements[1] = first]
        m1    == IF m = a THEN a1 ELSE m
    IN  [n |-> a.n,
         elements |->
            [r \in 1 .. Len(a.elements) |->
               IF r = 1 THEN first
               ELSE [c \in 1 .. a.n |-> DotRow(a1, m1, r, c)]]]

\* The body of operator*= after its size check: every row of *this against
\* every row of m.transpose().
Product(a, m) ==
    LET tm == Transpose(m)
    IN  [n |-> a.n,
         elements |->
            [r \in 1 .. Len(a.elements) |->
               [c \in 1 .. Len(tm.elements) |->
                  SumElements(
                     [k \in 1 .. Len(a.elements[r]) |->
                         IntTimes(a.elements[r][k], tm.elements[c][k])],
                     IntElement(0))]]]

(***************************************************************************)
(* t_oper (squarematrix.cpp:11-93): the block engine.                      *)
(***************************************************************************)
\* blocksz = ceil(double(m_size) / double(n_threads))
BlockSize(m_size, w) == (m_size + w - 1) \div w

\* blockct = ceil(m_size / blocksz): both operands are unsigned int, so the
\* quotient is already truncated when ceil sees it.
BlockCount(m_size, bs) == IF bs = 0 THEN 0 ELSE m_size \div bs

\* The lambdas handed to t_oper by operator+= and operator-=.
Func(op, e1, e2) == IF op = "+" THEN IntPlus(e1, e2) ELSE IntMinus(e1, e2)

\* A turn counter that is read but not advanced.
NextTurnStuck(t) == t

\* const unsigned int myturn = turn++ leaves turn one higher.
NextTurn(t) == t + 1

\* A wait loop that does not wait.
BarrierOpenAlways(e) == TRUE

\* A wait loop that waits for a count the last task never sees.
BarrierOpenOffByOne(e) == e = 1

\* if(ends == 0) in the wait loop
BarrierOpen(e) == e = 0

This == objs[call.this]

Rhs == objs[call.rhs]

NoCall == [op |-> "", form |-> "", this |-> "m1", rhs |-> "m2", err |-> ""]

EngineIdle ==
    /\ blocksz = 0 /\ blockct = 0 /\ turn = 0 /\ ends = 0
    /\ spawned = 0 /\ joined = 0

\* What every operator does once *this and its argument are fixed:
\* op is the operator, o the objects (ret already copied for a binary form).
Operate(op, form, this, rhs, o) ==
    LET a == o[this]
        m == IF op = "/" THEN Transpose(o[rhs]) ELSE o[rhs]
        c == [op |-> op, form |-> form, this |-> this, rhs |-> rhs, err |-> ""]
    IN  /\ old' = objs
        /\ IF DimensionMismatch(a, m)
             THEN /\ call' = [c EXCEPT !.err = MismatchMessage(op)]
                  /\ objs' = objs
                  /\ mainpc' = "threw"
                  /\ UNCHANGED <<blocksz, blockct, turn, ends>>
           ELSE IF op \in {"*", "/"}
             THEN /\ call' = c
                  /\ objs' = [o EXCEPT ![this] = Product(a, m)]
                  /\ mainpc' = "returned"
                  /\ UNCHANGED <<blocksz, blockct, turn, ends>>
           ELSE /\ call' = c
                /\ objs' = o
                /\ mainpc' = "spawn"
                /\ blocksz' = BlockSize(a.n * a.n, n_threads)
                /\ blockct' = BlockCount(a.n * a.n, BlockSize(a.n * a.n, n_threads))
                /\ turn' = 0
                /\ ends' = BlockCount(a.n * a.n, BlockSize(a.n * a.n, n_threads))
        /\ UNCHANGED <<cvars, given, calls, n_threads, mtx>>

\* The first operator call of the program: no thread has been created yet.
Enter(op, form, this, rhs, o) ==
    /\ Operate(op, form, this, rhs, o)
    /\ UNCHANGED <<spawned, joined, tpc, myturn, block_lhs, block_rhs, results, written>>

\* m1 op= m2, or m1 op= m1
Assign(op) ==
    /\ mainpc = "idle"
    /\ \E rhs \in {"m1", "m2"} : Enter(op, "inplace", "m1", rhs, objs)

\* A binary form that works on m1 itself instead of a copy.
BinaryNoCopy(op) ==
    /\ mainpc = "idle"
    /\ \E rhs \in {"m1", "m2"} : Enter(op, "binary", "m1", rhs, objs)

\* m1 op m2, or m1 op m1: ConcreteSquareMatrix ret{m1}; ret op= m2; return ret;
Binary(op) ==
    /\ mainpc = "idle"
    /\ \E rhs \in {"m1", "m2"} :
          Enter(op, "binary", "ret", rhs,
                [objs EXCEPT !.ret = CopyMatrix(objs.m1)])

\* m2 + m1 after m1 + m2 has returned: ConcreteSquareMatrix ret2{m2};
\* ret2 += m1; return ret2;  The threads and the locals of the earlier call
\* are gone, t_oper starts on fresh ones.
PlusSwapped ==
    /\ mainpc = "returned"
    /\ call.op = "+" /\ call.form = "binary" /\ call.this = "ret" /\ call.rhs = "m2"
    /\ Operate("+", "binary", "ret2", "m1", [objs EXCEPT !.ret2 = CopyMatrix(objs.m2)])
    /\ spawned' = 0
    /\ joined' = 0
    /\ tpc' = [t \in Threads |-> "unborn"]
    /\ myturn' = [t \in Threads |-> 0]
    /\ block_lhs' = [t \in Threads |-> <<>>]
    /\ block_rhs' = [t \in Threads |-> <<>>]
    /\ results' = [t \in Threads |-> <<>>]
    /\ written' = [t \in Threads |-> {}]

PlusAssign == Assign("+")

MinusAssign == Assign("-")

TimesAssign == Assign("*")

DivAssign == Assign("/")

Plus == Binary("+")

Minus == Binary("-")

Times == Binary("*")

Div == Binary("/")

\* v_threads.push_back(std::thread{...}) for i < blockct
Spawn ==
    /\ mainpc = "spawn"
    /\ spawned < blockct
    /\ tpc' = [tpc EXCEPT ![spawned] = "start"]
    /\ spawned' = spawned + 1
    /\ UNCHANGED <<cvars, given, calls, n_threads, mtx, objs, old, call, mainpc, blocksz, blockct,
                   turn, ends, joined, myturn, block_lhs, block_rhs, results,
                   written>>

\* t.join() in the order of v_threads
Join ==
    /\ mainpc = "spawn"
    /\ spawned = blockct
    /\ joined < blockct
    /\ tpc[joined] = "done"
    /\ joined' = joined + 1
    /\ UNCHANGED <<cvars, given, calls, n_threads, mtx, objs, old, call, mainpc, blocksz, blockct,
                   turn, ends, spawned, tpc, myturn, block_lhs, block_rhs,
                   results, written>>

\* t_oper returns, and with it operator+= / operator-= (and operator+ / -)
Return ==
    /\ mainpc = "spawn"
    /\ spawned = blockct
    /\ joined = blockct
    /\ mainpc' = "returned"
    /\ UNCHANGED <<cvars, given, calls, n_threads, mtx, objs, old, call, blocksz, blockct, turn,
                   ends, spawned, joined, tpc, myturn, block_lhs, block_rhs,
                   results, written>>

\* const unsigned int myturn = turn++;
TakeTurn(t) ==
    /\ tpc[t] = "start"
    /\ myturn' = [myturn EXCEPT ![t] = turn]
    /\ turn' = NextTurn(turn)
    /\ tpc' = [tpc EXCEPT ![t] = "fetch"]
    /\ UNCHANGED <<cvars, given, calls, n_threads, mtx, objs, old, call, mainpc, blocksz, blockct,
                   ends, spawned, joined, block_lhs, block_rhs, results,
                   written>>

\* The two std::async block() calls and their get(): block on *this gives
\* pointers into *this; rhs is copied into the async call, so block on it
\* gives cells of that copy.  An exception of block() leaves the thread
\* function and ends the process (std::terminate).
Fetch(t) ==
    /\ tpc[t] = "fetch"
    /\ mainpc = "spawn"
    /\ LET bl   == Block(This, blocksz * myturn[t], blocksz)
           copy == CopyMatrix(Rhs)
           br   == Block(copy, blocksz * myturn[t], blocksz)
       IN  IF bl.err # "" \/ br.err # ""
             THEN /\ mainpc' = "terminated"
                  /\ tpc' = [tpc EXCEPT ![t] = "threw"]
                  /\ UNCHANGED <<block_lhs, block_rhs>>
           ELSE /\ block_lhs' = [block_lhs EXCEPT ![t] = bl.ptrs]
                /\ block_rhs' = [block_rhs EXCEPT ![t] =
                                   [k \in 1 .. Len(br.ptrs) |-> Deref(copy, br.ptrs[k])]]
                /\ tpc' = [tpc EXCEPT ![t] = "compute"]
                /\ UNCHANGED mainpc
    /\ UNCHANGED <<cvars, given, calls, n_threads, mtx, objs, old, call, blocksz, blockct, turn,
                   ends, spawned, joined, myturn, results, written>>

\* for(auto& el_lhs : block_lhs) results.push_back(func(*el_lhs, **iter_rhs++))
Compute(t) ==
    /\ tpc[t] = "compute"
    /\ mainpc = "spawn"
    /\ results' = [results EXCEPT ![t] =
                      [k \in 1 .. Len(block_lhs[t]) |->
                          Func(call.op, Deref(This, block_lhs[t][k]), block_rhs[t][k])]]
    /\ tpc' = [tpc EXCEPT ![t] = "announce"]
    /\ UNCHANGED <<cvars, given, calls, n_threads, mtx, objs, old, call, mainpc, blocksz, blockct,
                   turn, ends, spawned, joined, myturn, block_lhs, block_rhs,
                   written>>

\* ends--;
Announce(t) ==
    /\ tpc[t] = "announce"
    /\ mainpc = "spawn"
    /\ ends' = ends - 1
    /\ tpc' = [tpc EXCEPT ![t] = "wait"]
    /\ UNCHANGED <<cvars, given, calls, n_threads, mtx, objs, old, call, mainpc, blocksz, blockct,
                   turn, spawned, joined, myturn, block_lhs, block_rhs, results,
                   written>>

\* mtx.lock() at the top of the wait loop
WaitLock(t) ==
    /\ tpc[t] = "wait"
    /\ mainpc = "spawn"
    /\ mtx = 0
    /\ mtx' = t + 1
    /\ tpc' = [tpc EXCEPT ![t] = "check"]
    /\ UNCHANGED <<cvars, given, calls, n_threads, objs, old, call, mainpc, blocksz, blockct, turn,
                   ends, spawned, joined, myturn, block_lhs, block_rhs, results,
                   written>>

\* if(ends == 0) {mtx.unlock(); break;}  mtx.unlock(); sleep_for(1 ms);
WaitCheck(t) ==
    /\ tpc[t] = "check"
    /\ mainpc = "spawn"
    /\ mtx' = 0
    /\ tpc' = [tpc EXCEPT ![t] = IF BarrierOpen(ends) THEN "passed" ELSE "wait"]
    /\ UNCHANGED <<cvars, given, calls, n_threads, objs, old, call, mainpc, blocksz, blockct, turn,
                   ends, spawned, joined, myturn, block_lhs, block_rhs, results,
                   written>>

\* A write-back entered without taking the mutex.
WriteLockUnguarded(t) ==
    /\ tpc[t] = "passed"
    /\ mainpc = "spawn"
    /\ mtx' = t + 1
    /\ tpc' = [tpc EXCEPT ![t] = "write"]
    /\ UNCHANGED <<cvars, given, calls, n_threads, objs, old, call, mainpc, blocksz, blockct, turn,
                   ends, spawned, joined, myturn, block_lhs, block_rhs, results,
                   written>>

\* mtx.lock() before the write-back
WriteLock(t) ==
    /\ tpc[t] = "passed"
    /\ mainpc = "spawn"
    /\ mtx = 0
    /\ mtx' = t + 1
    /\ tpc' = [tpc EXCEPT ![t] = "write"]
    /\ UNCHANGED <<cvars, given, calls, n_threads, objs, old, call, mainpc, blocksz, blockct, turn,
                   ends, spawned, joined, myturn, block_lhs, block_rhs, results,
                   written>>

\* for(auto& res : results) std::swap(**iter++, *res);
Write(t) ==
    /\ tpc[t] = "write"
    /\ mainpc = "spawn"
    /\ objs' = [objs EXCEPT ![call.this] =
                   WriteBack(This, block_lhs[t], results[t])]
    /\ written' = [written EXCEPT ![t] =
                      {block_lhs[t][k] : k \in 1 .. Len(block_lhs[t])}]
    /\ tpc' = [tpc EXCEPT ![t] = "unlock"]
    /\ UNCHANGED <<cvars, given, calls, n_threads, mtx, old, call, mainpc, blocksz, blockct, turn,
                   ends, spawned, joined, myturn, block_lhs, block_rhs, results>>

\* mtx.unlock(); the thread function ends
Unlock(t) ==
    /\ tpc[t] = "unlock"
    /\ mainpc = "spawn"
    /\ mtx' = 0
    /\ tpc' = [tpc EXCEPT ![t] = "done"]
    /\ UNCHANGED <<cvars, given, calls, n_threads, objs, old, call, mainpc, blocksz, blockct, turn,
                   ends, spawned, joined, myturn, block_lhs, block_rhs, results,
                   written>>

Worker(t) ==
    \/ TakeTurn(t)
    \/ Fetch(t)
    \/ Compute(t)
    \/ Announce(t)
    \/ WaitLock(t)
    \/ WaitCheck(t)
    \/ WriteLock(t)
    \/ Write(t)
    \/ Unlock(t)

\* What t_oper leaves in a for func = op: the tasks own the blocks of turns
\* 0 .. blockct-1, every task computes from the cells as they were before
\* any write, so the cell at flattened index p is updated exactly when
\* p < blocksz * blockct.  nt is n_threads.
ElementwiseResult(a, m, op, nt) ==
    [n |-> a.n,
     elements |->
        [r \in 1 .. Len(a.elements) |->
           [c \in 1 .. Len(a.elements[r]) |->
              IF (r - 1) * a.n + (c - 1) <
                    BlockSize(a.n * a.n, nt) *
                       BlockCount(a.n * a.n, BlockSize(a.n * a.n, nt))
                THEN Func(op, a.elements[r][c], m.elements[r][c])
              ELSE a.elements[r][c]]]]

\* The matrix m1 op= m2 makes of m1, or the exception it throws.
AssignResult(op, m1, m, nt) ==
    IF DimensionMismatch(m1, m)
      THEN [err |-> MismatchMessage(op), m |-> EmptyMatrix]
    ELSE IF op \in {"*", "/"} THEN [err |-> "", m |-> Product(m1, m)]
    ELSE [err |-> "", m |-> ElementwiseResult(m1, m, op, nt)]

\* m1 op m2 as a value: ConcreteSquareMatrix ret{m1}; ret op= m2; return ret;
OperatorResult(op, m1, m2, nt) ==
    AssignResult(op, CopyMatrix(m1), IF op = "/" THEN Transpose(m2) ELSE m2, nt)

(***************************************************************************)
(* CompositeSquareMatrix (compositesquarematrix.cpp): two operands, each a *)
(* matrix of any of the three classes, and the operator between them.      *)
(***************************************************************************)
Leaf(kind, m) == [node |-> "leaf", kind |-> kind, m |-> m]

\* CompositeSquareMatrix{op1, op2, opr, opc}: the operands are cloned
Composite(opc, op1, op2) ==
    [node |-> "composite", op_char |-> opc, oprnd1 |-> op1, oprnd2 |-> op2]

\* oprtor called with its two arguments exchanged.
CompositeApplySwapped(opc, r1, r2, nt, leftFirst) ==
    IF leftFirst /\ r1.err # "" THEN r1
    ELSE IF r2.err # "" THEN r2
    ELSE IF r1.err # "" THEN r1
    ELSE OperatorResult(opc, r2.m, r1.m, nt)

\* oprtor(oprnd1->evaluate(val), oprnd2->evaluate(val)) once both arguments
\* are evaluated, r1 and r2 being their outcomes: the exception of the
\* argument evaluated first leaves evaluate(), the second argument is not
\* evaluated then.  The order of the two is the compiler's choice.
CompositeApply(opc, r1, r2, nt, leftFirst) ==
    IF leftFirst /\ r1.err # "" THEN r1
    ELSE IF r2.err # "" THEN r2
    ELSE IF r1.err # "" THEN r1
    ELSE OperatorResult(opc, r1.m, r2.m, nt)

\* SquareMatrix::evaluate, dispatched on the class of the object
RECURSIVE ExprEvaluate(_, _, _, _)
ExprEvaluate(e, val, nt, leftFirst) ==
    IF e.node = "leaf"
      THEN IF e.kind = "symbolic" THEN SymbolicEvaluate(e.m, val)
           ELSE ConcreteEvaluate(e.m, val)
    ELSE CompositeApply(e.op_char,
                        ExprEvaluate(e.oprnd1, val, nt, leftFirst),
                        ExprEvaluate(e.oprnd2, val, nt, leftFirst),
                        nt, leftFirst)

\* SquareMatrix::toString, dispatched on the class of the object
RECURSIVE ExprToString(_)
ExprToString(e) ==
    IF e.node = "leaf" THEN toString(e.m)
    ELSE <<"(", " ">> \o ExprToString(e.oprnd1) \o <<" ", ")", " ", e.op_char, " ", "(", " ">>
           \o ExprToString(e.oprnd2) \o <<" ", ")">>

(***************************************************************************)
(* The matrices the operators are applied to.                              *)
(***************************************************************************)
\* The m x m matrix whose cells, in row-major order, are base, base + step,
\* base + 2*step, ... (the tests' [[1,2,3][4,5,6][7,8,9]] is Fill(3, 1, 1)).
Fill(m, base, step) ==
    [n |-> m,
     elements |-> [r \in 1 .. m |->
                     [c \in 1 .. m |-> IntElement(base + step * ((r - 1) * m + (c - 1)))]]]

LeftOperands == {Fill(m, 1, 1) : m \in 0 .. MaxN}

RightOperands == {Fill(m, 2, -1) : m \in 0 .. MaxN}

\* Values of the call chains: a text, a matrix of either kind, or the
\* exception a constructor threw.
NoValue == [kind |-> "none", err |-> "", text |-> <<>>, m |-> EmptyMatrix, cells |-> <<>>]

TextValue(s) == [kind |-> "text", err |-> "", text |-> s, m |-> EmptyMatrix, cells |-> <<>>]

MatrixValue(k, m) == [kind |-> k, err |-> "", text |-> <<>>, m |-> m, cells |-> <<>>]

ErrorValue(msg) ==
    [kind |-> "error", err |-> msg, text |-> <<>>, m |-> EmptyMatrix, cells |-> <<>>]

\* A composite matrix: m holds its operands and its operator.
CompositeValue(e) ==
    [kind |-> "composite", err |-> "", text |-> <<>>, m |-> e, cells |-> <<>>]

\* What block() returns: the cells its pointers refer to.
CellsValue(s) == [kind |-> "cells", err |-> "", text |-> <<>>, m |-> EmptyMatrix, cells |-> s]

\* main() has not been entered.
NoOutput == [msg |-> "", size |-> 0, m |-> EmptyMatrix]

MainNotRun ==
    /\ stage = "start"
    /\ mainres = 0
    /\ mstack = <<>>
    /\ buffer = <<>>
    /\ valuation = <<>>
    /\ out = NoOutput

Init ==
    /\ n_threads \in 1 .. MaxWorkers
    /\ mtx = 0
    /\ \E a \in LeftOperands, b \in RightOperands :
          objs = [m1 |-> a, m2 |-> b, ret |-> EmptyMatrix, ret2 |-> EmptyMatrix]
    /\ old = objs
    /\ call = NoCall
    /\ mainpc = "idle"
    /\ EngineIdle
    /\ tpc = [t \in Threads |-> "unborn"]
    /\ myturn = [t \in Threads |-> 0]
    /\ block_lhs = [t \in Threads |-> <<>>]
    /\ block_rhs = [t \in Threads |-> <<>>]
    /\ results = [t \in Threads |-> <<>>]
    /\ written = [t \in Threads |-> {}]
    /\ given = NoValue
    /\ calls = <<>>
    /\ MainNotRun

Next ==
    \/ PlusAssign
    \/ MinusAssign
    \/ TimesAssign
    \/ DivAssign
    \/ Plus
    \/ Minus
    \/ Times
    \/ Div
    \/ PlusSwapped
    \/ Spawn
    \/ Join
    \/ Return
    \/ \E t \in Threads : Worker(t)

Spec == Init /\ [][Next]_vars

\* The worker threads are scheduled fairly, and so is the calling thread.
FairSpec ==
    /\ Spec
    /\ WF_vars(Spawn)
    /\ WF_vars(Join)
    /\ WF_vars(Return)
    /\ \A t \in Threads : WF_vars(Worker(t))

(***************************************************************************)
(* Chains of constructor and const-method calls on one value: the string   *)
(* constructors, toString() and transpose().  Each call is made on what    *)
(* the call before returned; a call records its receiver (or argument) as  *)
(* it is after the call, and what it returned.                             *)
(***************************************************************************)
\* The m x m matrix whose cells are taken round-robin from pool, from
\* offset o on.
PoolMatrix(pool, m, o) ==
    [n |-> m,
     elements |-> [r \in 1 .. m |->
                     [c \in 1 .. m |->
                        pool[((o + (r - 1) * m + (c - 1)) % Len(pool)) + 1]]]]

IntPool ==
    <<IntElement(1), IntElement(-3), IntElement(0), IntElement(12),
      IntElement(IntMax), IntElement(-40), IntElement(IntMin), IntElement(7)>>

MixedPool ==
    <<VariableElement("a"), IntElement(-3), VariableElement("Z"), IntElement(0),
      IntElement(12), VariableElement("b"), IntElement(IntMin), VariableElement("x")>>

ConcreteMatrices ==
    {PoolMatrix(IntPool, m, o) : m \in 0 .. MaxDim, o \in 0 .. (Len(IntPool) - 1)}

SymbolicMatrices ==
    {PoolMatrix(MixedPool, m, o) : m \in 0 .. MaxDim, o \in 0 .. (Len(MixedPool) - 1)}

\* Texts: the renderings of matrices, and every text one edit away from
\* one (a character removed, inserted or replaced).
EditChars == {"[", "]", ",", "-", "+", "0", "7", " ", "x"}

Edits(s) ==
    {s}
      \cup {SubSeq(s, 1, i - 1) \o SubSeq(s, i + 1, Len(s)) : i \in 1 .. Len(s)}
      \cup {SubSeq(s, 1, i - 1) \o <<ch>> \o SubSeq(s, i, Len(s)) :
              i \in 1 .. (Len(s) + 1), ch \in EditChars}
      \cup {SubSeq(s, 1, i - 1) \o <<ch>> \o SubSeq(s, i + 1, Len(s)) :
              i \in 1 .. Len(s), ch \in EditChars}

BaseTexts ==
    {toString(PoolMatrix(IntPool, m, o)) : m \in 1 .. MaxTextDim, o \in {0, 3, 6}}
      \cup {toString(PoolMatrix(MixedPool, m, o)) : m \in 1 .. MaxTextDim, o \in {0, 3, 6}}

\* The text of rows of the given widths, the cells taken from pool.
ShapedText(pool, widths, o) ==
    <<"[">>
      \o RowsToString([r \in 1 .. Len(widths) |->
                         [c \in 1 .. widths[r] |->
                            pool[((o + (r - 1) * 3 + (c - 1)) % Len(pool)) + 1]]])
      \o <<"]">>

\* Rows that are not as many as they are wide, or not equally wide.
NonSquareWidths ==
    {<<2>>, <<1, 1>>, <<1, 2>>, <<2, 1>>, <<3, 3>>, <<2, 2, 2>>, <<3, 3, 3, 3>>,
     <<3, 2, 3>>, <<3, 3, 2>>, <<2, 3, 3>>, <<1, 2, 3>>}

ShapedTexts ==
    {ShapedText(pool, widths, o) :
        pool \in {IntPool, MixedPool}, widths \in NonSquareWidths, o \in {0, 3}}

\* The texts of no cell at all.
EmptyTexts == Edits(toString(EmptyMatrix)) \cup {<<>>}

Texts == UNION {Edits(s) : s \in BaseTexts} \cup ShapedTexts \cup EmptyTexts

\* What the next call is made on.
Cur == IF calls = <<>> THEN given ELSE calls[Len(calls)].ret

IsMatrix(v) == v.kind \in {"concrete", "symbolic"}

\* ConcreteSquareMatrix{str}
ParseConcreteCall ==
    /\ Len(calls) < MaxCalls
    /\ Cur.kind = "text"
    /\ LET r == ParseConcrete(Cur.text)
       IN  calls' = Append(calls,
                [op |-> "ConcreteSquareMatrix", self |-> Cur, args |-> <<>>,
                 ret |-> IF r.err = "" THEN MatrixValue("concrete", r.m)
                         ELSE ErrorValue(r.err)])
    /\ UNCHANGED <<cvars, given, evars>>

\* SymbolicSquareMatrix{str}
ParseSymbolicCall ==
    /\ Len(calls) < MaxCalls
    /\ Cur.kind = "text"
    /\ LET r == ParseSymbolic(Cur.text)
       IN  calls' = Append(calls,
                [op |-> "SymbolicSquareMatrix", self |-> Cur, args |-> <<>>,
                 ret |-> IF r.err = "" THEN MatrixValue("symbolic", r.m)
                         ELSE ErrorValue(r.err)])
    /\ UNCHANGED <<cvars, given, evars>>

\* m.toString()
ToStringCall ==
    /\ Len(calls) < MaxCalls
    /\ IsMatrix(Cur)
    /\ calls' = Append(calls,
            [op |-> "toString", self |-> Cur, args |-> <<>>,
             ret |-> TextValue(toString(Cur.m))])
    /\ UNCHANGED <<cvars, given, evars>>

\* m.transpose()
TransposeCall ==
    /\ Len(calls) < MaxCalls
    /\ IsMatrix(Cur)
    /\ calls' = Append(calls,
            [op |-> "transpose", self |-> Cur, args |-> <<>>,
             ret |-> MatrixValue(Cur.kind, Transpose(Cur.m))])
    /\ UNCHANGED <<cvars, given, evars>>

\* The bindings evaluate() is called with: none, some or all of the names
\* of the symbolic matrices, under two assignments of values.
VarNames == {"a", "Z", "b", "x"}

FullValuations ==
    {[c \in VarNames |-> 1],
     ("a" :> 1 @@ "Z" :> -3 @@ "b" :> 4 @@ "x" :> IntMin)}

Valuations ==
    {[c \in S |-> v[c]] : v \in FullValuations,
                          S \in {{}, {"a", "b"}, {"Z", "x"}, VarNames}}

\* The object of a value as evaluate() sees it.
ExprOf(v) == IF v.kind = "composite" THEN v.m ELSE Leaf(v.kind, v.m)

EvaluateValue(r) ==
    IF r.err = "" THEN MatrixValue("concrete", r.m) ELSE ErrorValue(r.err)

\* An evaluate() that moves the cells out of the object it is called on.
AfterEvaluateEmptied(v) ==
    IF v.kind = "composite"
      THEN [v EXCEPT !.m = Composite(v.m.op_char, Leaf("concrete", EmptyMatrix),
                                     Leaf("concrete", EmptyMatrix))]
      ELSE [v EXCEPT !.m = EmptyMatrix]

\* The object evaluate() was called on, after the call: evaluate() is a
\* const member function of the three classes, and what it hands to oprtor
\* and returns are matrices it has built.
AfterEvaluate(v) == v

\* m.evaluate(val), m of any of the three classes
EvaluateCall ==
    /\ Len(calls) < MaxQueries
    /\ IsMatrix(Cur) \/ Cur.kind = "composite"
    /\ \E val \in Valuations, leftFirst \in BOOLEAN :
          calls' = Append(calls,
              [op |-> "evaluate", self |-> AfterEvaluate(Cur), args |-> <<val>>,
               ret |-> EvaluateValue(ExprEvaluate(ExprOf(Cur), val, n_threads, leftFirst))])
    /\ UNCHANGED <<cvars, given, evars>>

\* evaluate(val) called once more, on the object the evaluate() before was
\* called on and with the same map, as that call left them.
EvaluateAgainCall ==
    /\ calls # <<>>
    /\ Len(calls) <= MaxQueries
    /\ calls[Len(calls)].op = "evaluate"
    /\ \E leftFirst \in BOOLEAN :
          calls' = Append(calls,
              [op |-> "evaluate again",
               self |-> AfterEvaluate(calls[Len(calls)].self),
               args |-> calls[Len(calls)].args,
               ret |-> EvaluateValue(ExprEvaluate(ExprOf(calls[Len(calls)].self),
                                                  calls[Len(calls)].args[1],
                                                  n_threads, leftFirst))])
    /\ UNCHANGED <<cvars, given, evars>>

\* What block(start, step) returns or throws on m.
BlockValue(m, b) ==
    IF b.err = "" THEN CellsValue([k \in 1 .. Len(b.ptrs) |-> Deref(m, b.ptrs[k])])
    ELSE ErrorValue(b.err)

\* m.block(start, step), with arguments up to one past the number of cells
BlockCall ==
    /\ Len(calls) < MaxQueries
    /\ IsMatrix(Cur)
    /\ \E start, step \in 0 .. (Cur.m.n * Cur.m.n + 1) :
          calls' = Append(calls,
              [op |-> "block", self |-> Cur, args |-> <<start, step>>,
               ret |-> BlockValue(Cur.m, Block(Cur.m, start, step))])
    /\ UNCHANGED <<cvars, given, evars>>

\* No operator call is in progress.
EngineAtRest ==
    /\ n_threads = 1
    /\ mtx = 0
    /\ objs = [m1 |-> EmptyMatrix, m2 |-> EmptyMatrix, ret |-> EmptyMatrix, ret2 |-> EmptyMatrix]
    /\ old = objs
    /\ call = NoCall
    /\ mainpc = "idle"
    /\ EngineIdle
    /\ tpc = [t \in Threads |-> "unborn"]
    /\ myturn = [t \in Threads |-> 0]
    /\ block_lhs = [t \in Threads |-> <<>>]
    /\ block_rhs = [t \in Threads |-> <<>>]
    /\ results = [t \in Threads |-> <<>>]
    /\ written = [t \in Threads |-> {}]

ValueInit ==
    /\ EngineAtRest
    /\ given \in {TextValue(s) : s \in Texts}
                   \cup {MatrixValue("concrete", m) : m \in ConcreteMatrices}
                   \cup {MatrixValue("symbolic", m) : m \in SymbolicMatrices}
    /\ calls = <<>>
    /\ MainNotRun

ValueNext ==
    \/ ParseConcreteCall
    \/ ParseSymbolicCall
    \/ ToStringCall
    \/ TransposeCall

ValueSpec == ValueInit /\ [][ValueNext]_vars

(***************************************************************************)
(* block() and evaluate() called on a matrix: a concrete one, a symbolic   *)
(* one, or (evaluate only) a composite of up to two operators.             *)
(***************************************************************************)
SymbolicLeaf(m) ==
    Leaf("symbolic",
         PoolMatrix(<<VariableElement("a"), VariableElement("b"),
                      IntElement(4), IntElement(5)>>, m, 0))

ConcreteLeaf(m) == Leaf("concrete", Fill(m, 1, 1))

ExprLeaves == {SymbolicLeaf(2), SymbolicLeaf(3), ConcreteLeaf(2), ConcreteLeaf(3)}

Operators == {"+", "-", "*", "/"}

FlatExprs == {Composite(opc, l, r) : opc \in Operators, l \in ExprLeaves, r \in ExprLeaves}

InnerExprs ==
    {Composite(opc, l, r) : opc \in {"+", "*"},
                            l \in {SymbolicLeaf(2), ConcreteLeaf(3)},
                            r \in {ConcreteLeaf(2), ConcreteLeaf(3)}}

NestedExprs ==
    {Composite(opc, l, r) : opc \in Operators, l \in InnerExprs, r \in ExprLeaves}
      \cup {Composite(opc, l, r) : opc \in Operators, l \in ExprLeaves, r \in InnerExprs}

QueryInit ==
    /\ n_threads \in 1 .. MaxWorkers
    /\ mtx = 0
    /\ objs = [m1 |-> EmptyMatrix, m2 |-> EmptyMatrix, ret |-> EmptyMatrix, ret2 |-> EmptyMatrix]
    /\ old = objs
    /\ call = NoCall
    /\ mainpc = "idle"
    /\ EngineIdle
    /\ tpc = [t \in Threads |-> "unborn"]
    /\ myturn = [t \in Threads |-> 0]
    /\ block_lhs = [t \in Threads |-> <<>>]
    /\ block_rhs = [t \in Threads |-> <<>>]
    /\ results = [t \in Threads |-> <<>>]
    /\ written = [t \in Threads |-> {}]
    /\ given \in {MatrixValue("concrete", m) : m \in ConcreteMatrices}
                   \cup {MatrixValue("symbolic", m) : m \in SymbolicMatrices}
                   \cup {CompositeValue(e) : e \in FlatExprs \cup NestedExprs}
    /\ calls = <<>>
    /\ MainNotRun

QueryNext ==
    \/ BlockCall
    \/ EvaluateCall
    \/ EvaluateAgainCall

QuerySpec == QueryInit /\ [][QueryNext]_vars

(***************************************************************************)
(* One matrix object from its construction on (squarematrix.hpp:84-228):   *)
(* a constructor, then assignments, transpose(), evaluate() and the        *)
(* assigning operators, each called on what the call before returned.      *)
(***************************************************************************)
\* The arguments of the constructor of squarematrix.hpp:107: the declared
\* size and the rows, which need not agree.
GridValue(new_n, rows) ==
    [kind |-> "grid", err |-> "", text |-> <<>>,
     m |-> [n |-> new_n, elements |-> rows], cells |-> <<>>]

\* Rows of the given widths.  The cells of this section are small, so that
\* no product of the operators called leaves the range of int.
GridRows(widths) ==
    [r \in 1 .. Len(widths) |-> [c \in 1 .. widths[r] |-> IntElement(r - c)]]

\* The widths of the rows handed in: square ones up to MaxDim, the two of
\* the test (three empty rows; one cell and two empty rows), and ragged ones.
GridWidths ==
    {[r \in 1 .. m |-> m] : m \in 0 .. MaxDim}
      \cup {<<0, 0, 0>>, <<1, 0, 0>>, <<2>>, <<1, 2>>, <<2, 1>>, <<2, 2, 2>>}

Grids == {GridValue(new_n, GridRows(w)) : new_n \in 0 .. MaxDim, w \in GridWidths}

\* The constructor of squarematrix.hpp:107 taking whatever it is handed.
StructuralUnchecked(new_n, new_elements) ==
    [err |-> "", m |-> [n |-> new_n, elements |-> new_elements]]

\* ElementarySquareMatrix(unsigned int new_n, new_elements)
Structural(new_n, new_elements) ==
    IF new_n # Len(new_elements) THEN Thrown("Not a squarematrix (invalid n).")
    ELSE IF \E r \in 1 .. Len(new_elements) : Len(new_elements[r]) # new_n
      THEN Thrown("Not a squarematrix (invalid row).")
    ELSE [err |-> "", m |-> [n |-> new_n, elements |-> new_elements]]

\* What a move leaves of its source: m.n = 0 and no row.
MovedFrom(kind) == MatrixValue(kind, EmptyMatrix)

\* Some of what distribution(generator) hands out, -99 .. 99.
RandomPool == <<IntElement(-2), IntElement(0), IntElement(1), IntElement(2), IntElement(-1)>>

\* The matrices handed to the assignments and the operators.
Others == {Fill(2, -1, 1)} \cup {Fill(MaxDim, 1, 0)}

\* The texts handed to the string constructors, and the maps to evaluate().
ObjectTexts ==
    {toString(PoolMatrix(<<IntElement(1), IntElement(-2), IntElement(0), IntElement(2)>>, m, 0)) :
        m \in 1 .. MaxTextDim}
      \cup {toString(PoolMatrix(<<VariableElement("a"), IntElement(2),
                                 VariableElement("b"), IntElement(-1)>>, m, 0)) :
               m \in 1 .. MaxTextDim}
      \cup {ShapedText(IntPool, <<2>>, 0), toString(EmptyMatrix)}

ObjectValuations == {<<>>, [c \in VarNames |-> 1]}

\* ElementarySquareMatrix()
DefaultCall ==
    /\ calls = <<>>
    /\ given = NoValue
    /\ \E kind \in {"concrete", "symbolic"} :
          calls' = Append(calls,
              [op |-> "default", self |-> given, args |-> <<>>,
               ret |-> MatrixValue(kind, EmptyMatrix)])
    /\ UNCHANGED <<cvars, given, evars>>

\* ElementarySquareMatrix<IntElement>(int m), m >= 0
RandomCall ==
    /\ calls = <<>>
    /\ given = NoValue
    /\ \E m \in 0 .. MaxDim, o \in {0, 2} :
          calls' = Append(calls,
              [op |-> "random", self |-> given, args |-> <<m>>,
               ret |-> MatrixValue("concrete", PoolMatrix(RandomPool, m, o))])
    /\ UNCHANGED <<cvars, given, evars>>

\* ElementarySquareMatrix(new_n, new_elements)
StructuralCall ==
    /\ calls = <<>>
    /\ given.kind = "grid"
    /\ LET r == Structural(given.m.n, given.m.elements)
       IN  calls' = Append(calls,
               [op |-> "structural", self |-> given, args |-> <<>>,
                ret |-> IF r.err = "" THEN MatrixValue("concrete", r.m)
                        ELSE ErrorValue(r.err)])
    /\ UNCHANGED <<cvars, given, evars>>

\* ElementarySquareMatrix(const ElementarySquareMatrix<T>& m)
CopyCall ==
    /\ Len(calls) < MaxCalls
    /\ IsMatrix(Cur)
    /\ calls' = Append(calls,
            [op |-> "copy", self |-> Cur, args |-> <<>>,
             ret |-> MatrixValue(Cur.kind, CopyMatrix(Cur.m))])
    /\ UNCHANGED <<cvars, given, evars>>

\* ElementarySquareMatrix(ElementarySquareMatrix<T>&& m)
MoveCall ==
    /\ Len(calls) < MaxCalls
    /\ IsMatrix(Cur)
    /\ calls' = Append(calls,
            [op |-> "move", self |-> MovedFrom(Cur.kind), args |-> <<>>,
             ret |-> MatrixValue(Cur.kind, Cur.m)])
    /\ UNCHANGED <<cvars, given, evars>>

\* *this = m, m another object or *this: nothing is done when m == *this,
\* else the cells of m are cloned
CopyAssignCall ==
    /\ Len(calls) < MaxCalls
    /\ IsMatrix(Cur)
    /\ \E m \in Others \cup {Cur.m} :
          calls' = Append(calls,
              [op |-> "=", self |-> MatrixValue(Cur.kind, IF m = Cur.m THEN Cur.m
                                                          ELSE CopyMatrix(m)),
               args |-> <<MatrixValue(Cur.kind, m)>>,
               ret |-> MatrixValue(Cur.kind, IF m = Cur.m THEN Cur.m ELSE CopyMatrix(m))])
    /\ UNCHANGED <<cvars, given, evars>>

\* *this = std::move(m): *this takes n and the rows of m, then m.n = 0 and
\* m.elements is emptied, which empties *this when m is *this
MoveAssignCall ==
    /\ Len(calls) < MaxCalls
    /\ IsMatrix(Cur)
    /\ \/ \E m \in Others :
             calls' = Append(calls,
                 [op |-> "= move", self |-> MatrixValue(Cur.kind, m),
                  args |-> <<MovedFrom(Cur.kind)>>,
                  ret |-> MatrixValue(Cur.kind, m)])
       \/ calls' = Append(calls,
               [op |-> "= move", self |-> MovedFrom(Cur.kind),
                args |-> <<MovedFrom(Cur.kind)>>,
                ret |-> MovedFrom(Cur.kind)])
    /\ UNCHANGED <<cvars, given, evars>>

\* m.evaluate(val) within the calls on one object
EvaluateObjectCall ==
    /\ Len(calls) < MaxCalls
    /\ IsMatrix(Cur)
    /\ \E val \in ObjectValuations :
          calls' = Append(calls,
              [op |-> "evaluate", self |-> AfterEvaluate(Cur), args |-> <<val>>,
               ret |-> EvaluateValue(ExprEvaluate(ExprOf(Cur), val, n_threads, TRUE))])
    /\ UNCHANGED <<cvars, given, evars>>

\* *this op= m, m another object or *this; a throw leaves *this as it was
OperatorAssignCall ==
    /\ Len(calls) < MaxCalls
    /\ Cur.kind = "concrete"
    /\ \E op \in Operators, m \in {Fill(2, -1, 1), Cur.m} :
          LET r == AssignResult(op, Cur.m, IF op = "/" THEN Transpose(m) ELSE m, n_threads)
          IN  calls' = Append(calls,
                  [op |-> op,
                   self |-> IF r.err = "" THEN MatrixValue("concrete", r.m) ELSE Cur,
                   args |-> <<MatrixValue("concrete", m)>>,
                   ret |-> IF r.err = "" THEN MatrixValue("concrete", r.m)
                           ELSE ErrorValue(r.err)])
    /\ UNCHANGED <<cvars, given, evars>>

ObjectInit ==
    /\ n_threads \in 1 .. MaxWorkers
    /\ mtx = 0
    /\ objs = [m1 |-> EmptyMatrix, m2 |-> EmptyMatrix, ret |-> EmptyMatrix, ret2 |-> EmptyMatrix]
    /\ old = objs
    /\ call = NoCall
    /\ mainpc = "idle"
    /\ EngineIdle
    /\ tpc = [t \in Threads |-> "unborn"]
    /\ myturn = [t \in Threads |-> 0]
    /\ block_lhs = [t \in Threads |-> <<>>]
    /\ block_rhs = [t \in Threads |-> <<>>]
    /\ results = [t \in Threads |-> <<>>]
    /\ written = [t \in Threads |-> {}]
    /\ given \in {NoValue} \cup Grids \cup {TextValue(s) : s \in ObjectTexts}
    /\ calls = <<>>
    /\ MainNotRun

ObjectNext ==
    \/ DefaultCall
    \/ RandomCall
    \/ StructuralCall
    \/ ParseConcreteCall
    \/ ParseSymbolicCall
    \/ CopyCall
    \/ MoveCall
    \/ CopyAssignCall
    \/ MoveAssignCall
    \/ TransposeCall
    \/ EvaluateObjectCall
    \/ OperatorAssignCall

ObjectSpec == ObjectInit /\ [][ObjectNext]_vars

(***************************************************************************)
(* Division of integer cells (element.cpp:62-92): operator/ and operator/= *)
(* called on a cell, with a cell as the divisor.                           *)
(***************************************************************************)
\* i1.t / i2.t of two ints, i2.t not 0 and the quotient an int: the
\* fraction of the quotient is discarded, whatever its sign.
IntQuotient(a, b) ==
    IF b = IntMin THEN (IF a = IntMin THEN 1 ELSE 0)
    ELSE IF a % (IF b < 0 THEN -b ELSE b) # 0 /\ (a < 0) # (b < 0)
      THEN (a \div b) + 1
    ELSE a \div b

\* What the division of e1 by e2 can do: throw on a divisor of zero; the
\* least int divided by -1 has no int for a quotient, the behaviour is
\* undefined, and the builds at hand either wrap or trap.
IntDivide(e1, e2) ==
    IF e2.t = 0 THEN {[err |-> "Divisor cannot be zero.", e |-> e1]}
    ELSE IF e1.t = IntMin /\ e2.t = -1
      THEN {[err |-> "", e |-> IntElement(IntMin)], [err |-> "SIGFPE", e |-> e1]}
    ELSE {[err |-> "", e |-> IntElement(IntQuotient(e1.t, e2.t))]}

\* The values of the cells divided.
CellInts == {IntMin, -99, -8, -7, -2, -1, 0, 1, 2, 7, 8, 99, IntMax}

ElementValue(e) == CellsValue(<<e>>)

IsElement(v) == v.kind = "cells" /\ Len(v.cells) = 1

\* i1 / i2: i1 is left as it is, the quotient is a new cell
ElementDivideCall ==
    /\ Len(calls) < MaxQueries
    /\ IsElement(Cur)
    /\ \E b \in CellInts :
          \E d \in IntDivide(Cur.cells[1], IntElement(b)) :
             calls' = Append(calls,
                 [op |-> "/", self |-> Cur, args |-> <<IntElement(b)>>,
                  ret |-> IF d.err = "" THEN ElementValue(d.e) ELSE ErrorValue(d.err)])
    /\ UNCHANGED <<cvars, given, evars>>

\* el /= tel: the quotient is stored in el and el returned; a throw leaves
\* el as it is
ElementDivideAssignCall ==
    /\ Len(calls) < MaxQueries
    /\ IsElement(Cur)
    /\ \E b \in CellInts :
          \E d \in IntDivide(Cur.cells[1], IntElement(b)) :
             calls' = Append(calls,
                 [op |-> "/=", self |-> ElementValue(d.e), args |-> <<IntElement(b)>>,
                  ret |-> IF d.err = "" THEN ElementValue(d.e) ELSE ErrorValue(d.err)])
    /\ UNCHANGED <<cvars, given, evars>>

ElementInit ==
    /\ EngineAtRest
    /\ given \in {ElementValue(IntElement(a)) : a \in CellInts}
    /\ calls = <<>>
    /\ MainNotRun

ElementNext ==
    \/ ElementDivideCall
    \/ ElementDivideAssignCall

ElementSpec == ElementInit /\ [][ElementNext]_vars

(***************************************************************************)
(* main() (main.cpp:21-243): the check of n_threads, the unit tests, and   *)
(* the command loop on the stack of matrices and the valuation map.  One   *)
(* action per branch of the loop; a line is a sequence of characters.      *)
(***************************************************************************)
\* The matrices on the stack hold at most this many matrices entered as text.
MaxLeaves == 2

CmdClearval == <<"c", "l", "e", "a", "r", "v", "a", "l">>

CmdStacksize == <<"s", "t", "a", "c", "k", "s", "i", "z", "e">>

CmdPrintval == <<"p", "r", "i", "n", "t", "v", "a", "l">>

CmdQuit == <<"q", "u", "i", "t">>

CmdEvaluate == <<"=">>

OperatorLines == {<<opc>> : opc \in Operators}

\* x=2 and its like: a name bound, and lines main() refuses
ValuationLines ==
    {<<"a", "=", "1">>, <<"a", "=", "z">>, <<"a">>}

\* [[2]], [[2]] followed by a space, and [[a]]
MatrixLines ==
    {toString(Fill(1, 2, 1)),
     toString(Fill(1, 2, 1)) \o <<" ">>,
     toString(PoolMatrix(<<VariableElement("a")>>, 1, 0))}

OtherLines == {<<"?">>}

Lines ==
    {CmdClearval, CmdStacksize, CmdPrintval, CmdQuit, CmdEvaluate}
      \cup OperatorLines \cup ValuationLines \cup MatrixLines \cup OtherLines

\* buffer[i] of the std::string: the character after the last is the null
\* character
CharAt(str, i) == IF i < Len(str) THEN str[i + 1] ELSE NUL

Said(msg) == [msg |-> msg, size |-> 0, m |-> EmptyMatrix]

\* the matrix evaluate() returned, printed after "Result : "
Result(m) == [msg |-> "Result : ", size |-> 0, m |-> m]

\* the matrices entered as text that e is made of
RECURSIVE LeafCount(_)
LeafCount(e) ==
    IF e.node = "leaf" THEN 1 ELSE LeafCount(e.oprnd1) + LeafCount(e.oprnd2)

RECURSIVE StackLeaves(_)
StackLeaves(st) ==
    IF st = <<>> THEN 0 ELSE LeafCount(Head(st)) + StackLeaves(Tail(st))

\* mstack.top(), mstack.pop(), mstack.push(m)
Top(st) == st[Len(st)]

Pop(st) == SubSeq(st, 1, Len(st) - 1)

Push(st, m) == Append(st, m)

\* get_user_input() has read line b
Read(b) ==
    /\ stage = "loop"
    /\ b \in Lines
    /\ buffer' = b

\* main.cpp:23-28: no thread count, main() returns -1 at once
MainRefuse ==
    /\ stage = "start"
    /\ n_threads = 0
    /\ stage' = "returned"
    /\ mainres' = -1
    /\ out' = Said("Exiting.")
    /\ UNCHANGED <<mstack, buffer, valuation, evars, vvars>>

\* The unit tests and the loop entered whatever n_threads is.
MainTestsUnchecked ==
    /\ stage = "start"
    /\ stage' = "loop"
    /\ mainres' \in {0, 1}
    /\ mstack' = <<>>
    /\ buffer' = <<>>
    /\ valuation' = <<>>
    /\ out' = Said("* Input valuation in format")
    /\ UNCHANGED <<evars, vvars>>

\* main.cpp:30-49: the unit tests run, res is what they return; the loop
\* is entered with an empty stack and an empty valuation map
MainTests ==
    /\ stage = "start"
    /\ n_threads # 0
    /\ stage' = "loop"
    /\ mainres' \in {0, 1}
    /\ mstack' = <<>>
    /\ buffer' = <<>>
    /\ valuation' = <<>>
    /\ out' = Said("* Input valuation in format")
    /\ UNCHANGED <<evars, vvars>>

\* main.cpp:52-56
LineClearval ==
    /\ Read(CmdClearval)
    /\ valuation' = <<>>
    /\ out' = Said("Valuation map cleared.")
    /\ UNCHANGED <<stage, mainres, mstack, evars, vvars>>

\* main.cpp:57-60
LineStacksize ==
    /\ Read(CmdStacksize)
    /\ out' = [msg |-> "Stack size: ", size |-> Len(mstack), m |-> EmptyMatrix]
    /\ UNCHANGED <<stage, mainres, mstack, valuation, evars, vvars>>

\* main.cpp:61-74
LinePrintval ==
    /\ Read(CmdPrintval)
    /\ out' = IF valuation = <<>> THEN Said("Valuation map is empty.")
                                  ELSE Said(" = ")
    /\ UNCHANGED <<stage, mainres, mstack, valuation, evars, vvars>>

\* main.cpp:75-78 and 242: quit leaves the loop, and so does the end of the
\* input; main() returns res
LineQuit ==
    /\ stage = "loop"
    /\ buffer' \in {CmdQuit, <<>>}
    /\ stage' = "returned"
    /\ UNCHANGED <<mainres, mstack, valuation, out, evars, vvars>>

\* The operator line that makes oprnd2 of what was on top.
LineOperatorSwapped ==
    \E b \in OperatorLines :
       /\ Read(b)
       /\ IF Len(mstack) < 2
            THEN /\ out' = Said("Too few matrices in stack.")
                 /\ UNCHANGED mstack
            ELSE /\ mstack' = Push(Pop(Pop(mstack)),
                                   Composite(CharAt(b, 0), Top(Pop(mstack)), Top(mstack)))
                 /\ out' = Said("( ")
       /\ UNCHANGED <<stage, mainres, valuation, evars, vvars>>

\* main.cpp:79-139: m1 is what was on top, m2 what was under it, and
\* CompositeSquareMatrix{*m1, *m2, func, opchar} is pushed
LineOperator ==
    \E b \in OperatorLines :
       /\ Read(b)
       /\ IF Len(mstack) < 2
            THEN /\ out' = Said("Too few matrices in stack.")
                 /\ UNCHANGED mstack
            ELSE /\ mstack' = Push(Pop(Pop(mstack)),
                                   Composite(CharAt(b, 0), Top(mstack), Top(Pop(mstack))))
                 /\ out' = Said("( ")
       /\ UNCHANGED <<stage, mainres, valuation, evars, vvars>>

\* main.cpp:140-164: a clone of the top is evaluated under valuation; what
\* evaluate() throws is caught and its message printed
LineEvaluate ==
    /\ Read(CmdEvaluate)
    /\ IF Len(mstack) < 1
         THEN out' = Said("Stack is empty.")
         ELSE \E leftFirst \in BOOLEAN :
                 LET r == ExprEvaluate(Top(mstack), valuation, n_threads, leftFirst)
                 IN  out' = IF r.err = "" THEN Result(r.m) ELSE Said(r.err)
    /\ UNCHANGED <<stage, mainres, mstack, valuation, evars, vvars>>

\* main.cpp:173-181: num is the digits of buffer from index 2 up to the
\* first character that is none
RECURSIVE NumFrom(_, _)
NumFrom(str, i) ==
    IF i < Len(str) /\ IsDigit(CharAt(str, i))
      THEN <<CharAt(str, i)>> \o NumFrom(str, i + 1)
      ELSE <<>>

\* std::stoi(num): [err, v]
RECURSIVE StoiFrom(_, _, _)
StoiFrom(num, i, acc) ==
    IF i > Len(num) THEN [err |-> "", v |-> acc]
    ELSE IF acc > (IntMax - DigitVal(num[i])) \div 10
      THEN [err |-> "out_of_range: stoi", v |-> 0]
    ELSE StoiFrom(num, i + 1, 10 * acc + DigitVal(num[i]))

Stoi(num) ==
    IF num = <<>> THEN [err |-> "invalid_argument: stoi", v |-> 0]
    ELSE StoiFrom(num, 1, 0)

\* std::map::insert: a key already in the map keeps its value
Insert(val, var, v) ==
    IF var \in DOMAIN val THEN val
    ELSE [c \in DOMAIN val \cup {var} |-> IF c = var THEN v ELSE val[c]]

\* The lines that reach the branch of main.cpp:165: no command, and a
\* letter first.
LettersFirst ==
    {b \in Lines \ {CmdClearval, CmdStacksize, CmdPrintval, CmdQuit} :
        IsAlpha(CharAt(b, 0))}

\* main.cpp:165-195
LineValuation ==
    \E b \in LettersFirst :
       /\ Read(b)
       /\ IF CharAt(b, 1) # "="
            THEN /\ out' = Said("Invalid valuation input.")
                 /\ UNCHANGED valuation
            ELSE LET n == Stoi(NumFrom(b, 2))
                 IN  IF n.err = ""
                       THEN /\ valuation' = Insert(valuation, CharAt(b, 0), n.v)
                            /\ out' = Said("Added valuation.")
                       ELSE /\ out' = Said("Invalid valuation input.")
                            /\ UNCHANGED valuation
       /\ UNCHANGED <<stage, mainres, mstack, evars, vvars>>

\* main.cpp:198-210: is_alpha is set when a letter is found from index 2
\* on, and is not initialized
IsAlphaFlag(str) ==
    IF \E i \in 2 .. (Len(str) - 1) : IsAlpha(CharAt(str, i)) THEN {TRUE}
    ELSE BOOLEAN

\* main.cpp:211-225: what the constructor chosen by is_alpha makes of the
\* lines that begin with a bracket
MatrixInputs ==
    UNION {{[line |-> b, is_alpha |-> is_alpha,
             r |-> IF is_alpha THEN ParseSymbolic(b) ELSE ParseConcrete(b)] :
               is_alpha \in IsAlphaFlag(b)} :
           b \in {l \in Lines : CharAt(l, 0) = "["}}

\* main.cpp:196-233
LineMatrix ==
    \E i \in MatrixInputs :
       /\ Read(i.line)
       /\ IF i.r.err = ""
            THEN /\ StackLeaves(mstack) < MaxLeaves
                 /\ mstack' = Push(mstack,
                                   Leaf(IF i.is_alpha THEN "symbolic" ELSE "concrete",
                                        i.r.m))
                 /\ out' = Said("Added matrix to stack.")
            ELSE /\ out' = Said("Input was not recognized.")
                 /\ UNCHANGED mstack
       /\ UNCHANGED <<stage, mainres, valuation, evars, vvars>>

\* The lines no branch before main.cpp:234 takes.
Unrecognized ==
    {b \in (Lines \ {CmdClearval, CmdStacksize, CmdPrintval, CmdQuit, CmdEvaluate})
               \ OperatorLines :
        ~IsAlpha(CharAt(b, 0)) /\ CharAt(b, 0) # "["}

\* main.cpp:234-237
LineOther ==
    \E b \in Unrecognized :
       /\ Read(b)
       /\ out' = Said("Input was not recognized.")
       /\ UNCHANGED <<stage, mainres, mstack, valuation, evars, vvars>>

\* The process is started on a machine of any thread count,
\* std::thread::hardware_concurrency() returning 0 when it cannot tell.
MainInit ==
    /\ n_threads \in 0 .. MaxWorkers
    /\ mtx = 0
    /\ objs = [m1 |-> EmptyMatrix, m2 |-> EmptyMatrix, ret |-> EmptyMatrix, ret2 |-> EmptyMatrix]
    /\ old = objs
    /\ call = NoCall
    /\ mainpc = "idle"
    /\ EngineIdle
    /\ tpc = [t \in Threads |-> "unborn"]
    /\ myturn = [t \in Threads |-> 0]
    /\ block_lhs = [t \in Threads |-> <<>>]
    /\ block_rhs = [t \in Threads |-> <<>>]
    /\ results = [t \in Threads |-> <<>>]
    /\ written = [t \in Threads |-> {}]
    /\ given = NoValue
    /\ calls = <<>>
    /\ MainNotRun

MainNext ==
    \/ MainRefuse
    \/ MainTests
    \/ LineClearval
    \/ LineStacksize
    \/ LinePrintval
    \/ LineQuit
    \/ LineOperator
    \/ LineEvaluate
    \/ LineValuation
    \/ LineMatrix
    \/ LineOther

MainSpec == MainInit /\ [][MainNext]_vars

(***************************************************************************)
(* Properties of the block engine and of the operators.                    *)
(***************************************************************************)
Elementwise == call.op \in {"+", "-"}

Tasks == 0 .. (blockct - 1)

\* The flattened indices of the block of turn k.
TurnBlock(k) == {blocksz * k + d : d \in 0 .. (blocksz - 1)}

HasTurn(t) == tpc[t] \notin {"unborn", "start"}

Announced(t) == tpc[t] \in {"wait", "check", "passed", "write", "unlock", "done"}

PastBarrier(t) == tpc[t] \in {"passed", "write", "unlock", "done"}

\* C1: when A += B (A -= B) has returned, every cell (i,j) of A holds
\* oldA[i][j] + B[i][j] (oldA[i][j] - B[i][j]).
C1_EveryCellUpdated ==
    (mainpc = "returned" /\ Elementwise /\ call.form = "inplace" /\ call.rhs = "m2") =>
        \A i \in 1 .. old.m1.n : \A j \in 1 .. old.m1.n :
            objs.m1.elements[i][j] =
                Func(call.op, old.m1.elements[i][j], old[call.rhs].elements[i][j])

\* What one task of turn k makes of m, given the right operand r.
TaskResult(m, r, op, k, bs) ==
    LET ptrs == Block(m, bs * k, bs).ptrs
    IN  WriteBack(m, ptrs,
                  [i \in 1 .. Len(ptrs) |-> Func(op, Deref(m, ptrs[i]), Deref(r, ptrs[i]))])

\* What t_oper makes of m with n_threads = 1.
OneWorkerResult(m, r, op) ==
    LET bs == BlockSize(m.n * m.n, 1)
    IN  IF BlockCount(m.n * m.n, bs) = 0 THEN m ELSE TaskResult(m, r, op, 0, bs)

\* C2: whatever n_threads is and however the tasks interleave, the matrix
\* an elementwise operation leaves is the one it leaves with one worker.
C2_SameAsOneWorker ==
    (mainpc = "returned" /\ Elementwise) =>
        This = OneWorkerResult(IF call.this = "ret2" THEN old.m2 ELSE old.m1,
                               old[call.rhs], call.op)

\* C3: no task is past the barrier, and no cell of the left-hand matrix is
\* written, before every task of the operation has computed its results
\* and decremented ends.
C3_ReadsBeforeWrites ==
    \A t \in Threads :
        (PastBarrier(t) \/ written[t] # {}) =>
            /\ ends = 0
            /\ \A u \in Tasks : Announced(u)

\* One task has written its block back while another has not yet left the
\* wait loop.
C3_Witness ==
    \E t, u \in Tasks :
        /\ t # u
        /\ written[t] # {}
        /\ tpc[u] \in {"wait", "check"}

\* C4: for total = n*n > 0 the number of tasks is ceil(total / blocksz) with
\* blocksz = ceil(total / n_threads), and the tasks' blocks together are
\* exactly the indices 0 .. total-1.
C4_BlockCountIsCeiling ==
    (mainpc = "spawn" /\ This.n > 0) =>
        LET total == This.n * This.n
        IN  /\ blocksz * n_threads >= total
            /\ (blocksz - 1) * n_threads < total
            /\ blockct * blocksz >= total
            /\ (blockct - 1) * blocksz < total
            /\ {i \in 0 .. (total - 1) : \E k \in Tasks : i \in TurnBlock(k)}
                  = 0 .. (total - 1)

\* C5: no two tasks hold the same turn; the blocks of two tasks are disjoint;
\* the pointers a task holds are its block, in order; a task writes only
\* cells of its block.
C5_DistinctTurnsOwnBlocks ==
    /\ \A t, u \in Threads :
          (t # u /\ HasTurn(t) /\ HasTurn(u)) =>
              /\ myturn[t] # myturn[u]
              /\ TurnBlock(myturn[t]) \cap TurnBlock(myturn[u]) = {}
    /\ \A t \in Threads :
          /\ (tpc[t] \in {"compute", "announce"} \/ Announced(t)) =>
                block_lhs[t] = [k \in 1 .. blocksz |-> blocksz * myturn[t] + k - 1]
          /\ written[t] \subseteq TurnBlock(myturn[t])

\* Two tasks have written their blocks back.
C5_Witness ==
    \E t, u \in Tasks : t # u /\ written[t] # {} /\ written[u] # {}

\* C6: under fair scheduling an elementwise operation that has entered
\* t_oper returns, and it has not returned while a task has yet to finish
\* its write-back and be joined.
C6_ReturnsAfterAllTasks ==
    /\ [](mainpc = "spawn" => <>(mainpc = "returned"))
    /\ []((mainpc = "returned" /\ Elementwise) =>
             /\ joined = blockct
             /\ \A t \in Tasks : tpc[t] = "done" /\ written[t] = TurnBlock(myturn[t]))

\* An elementwise operation of two tasks has returned.
C6_Witness ==
    mainpc = "returned" /\ Elementwise /\ blockct = 2 /\ joined = 2

\* C7: an operator applied to matrices of different size throws the
\* dimension mismatch, starts no worker thread and leaves m1 and m2 as they
\* were; a binary form returns nothing.
C7_MismatchThrows ==
    (mainpc # "idle" /\ old.m1.n # old[call.rhs].n) =>
        /\ mainpc = "threw"
        /\ call.err \in {"Dimension mismatch.", "Dimension mismatch"}
        /\ spawned = 0
        /\ \A t \in Threads : tpc[t] = "unborn"
        /\ objs.m1 = old.m1
        /\ objs.m2 = old.m2
        /\ objs.ret = EmptyMatrix

\* The binary operator/ has thrown on operands of sizes 2 and 3.
C7_Witness ==
    /\ mainpc = "threw"
    /\ call.op = "/"
    /\ call.form = "binary"
    /\ old.m1.n = 2
    /\ old.m2.n = 3

(***************************************************************************)
(* The grammar of matrix texts: matrix := '[' row* ']', row := '[' cell    *)
(* (',' cell)* ']', integer := optional '-' then digits, variable := one   *)
(* letter (symbolic matrices only), white space allowed between tokens.    *)
(***************************************************************************)
RECURSIVE IntegerEnd(_, _)
IntegerEnd(s, p) == IF p <= Len(s) /\ IsDigit(s[p]) THEN IntegerEnd(s, p + 1) ELSE p

\* The tokens of s from position p on; <<"?">> stands for a character that
\* starts no token.
RECURSIVE Tokens(_, _)
TokenAt(s, q, e) ==
    IF q > Len(s) THEN <<>>
    ELSE IF s[q] \in {"[", "]", ","} \/ IsAlpha(s[q])
      THEN <<<<s[q]>>>> \o Tokens(s, q + 1)
    ELSE IF e > (IF s[q] = "-" THEN q + 1 ELSE q)
      THEN <<SubSeq(s, q, e - 1)>> \o Tokens(s, e)
    ELSE <<<<"?">>>> \o Tokens(s, q + 1)

TokenFrom(s, q) ==
    TokenAt(s, q, IntegerEnd(s, IF q <= Len(s) /\ s[q] = "-" THEN q + 1 ELSE q))

Tokens(s, p) == TokenFrom(s, SkipWs(s, p))

IsIntegerToken(t) == IsDigit(t[Len(t)])

IsVariableToken(t) == Len(t) = 1 /\ IsAlpha(t[1])

IsCellToken(t, sym) == IsIntegerToken(t) \/ (sym /\ IsVariableToken(t))

NoShape == [ok |-> FALSE, widths |-> <<>>]

\* The cells of a row from token i on, up to the row's closing bracket.
RECURSIVE CellsEnd(_, _, _, _)
CellsEnd(toks, i, sym, w) ==
    IF i + 1 > Len(toks) \/ ~IsCellToken(toks[i], sym)
      THEN [ok |-> FALSE, next |-> i, w |-> w]
    ELSE IF toks[i + 1] = <<",">> THEN CellsEnd(toks, i + 2, sym, w + 1)
    ELSE IF toks[i + 1] = <<"]">> THEN [ok |-> TRUE, next |-> i + 2, w |-> w + 1]
    ELSE [ok |-> FALSE, next |-> i, w |-> w]

\* The rows from token i on, up to the matrix's closing bracket: whether
\* the tokens follow the grammar, and the widths of the rows.
RECURSIVE RowsFrom(_, _, _, _)
AfterRow(toks, r, sym, widths) ==
    IF r.ok THEN RowsFrom(toks, r.next, sym, Append(widths, r.w)) ELSE NoShape

RowsFrom(toks, i, sym, widths) ==
    IF i > Len(toks) THEN NoShape
    ELSE IF toks[i] = <<"]">> THEN [ok |-> i = Len(toks), widths |-> widths]
    ELSE IF toks[i] = <<"[">> THEN AfterRow(toks, CellsEnd(toks, i + 1, sym, 0), sym, widths)
    ELSE NoShape

Shape(toks, sym) ==
    IF toks = <<>> \/ toks[1] # <<"[">> THEN NoShape ELSE RowsFrom(toks, 2, sym, <<>>)

\* s is a text of the grammar, with white space only between tokens.
GrammarAccepts(s, sym) ==
    /\ s # <<>>
    /\ ~IsSpace(s[1])
    /\ ~IsSpace(s[Len(s)])
    /\ Shape(Tokens(s, 1), sym).ok

IsSquare(widths) == widths # <<>> /\ \A k \in 1 .. Len(widths) : widths[k] = Len(widths)

\* a <= b for digit strings of one length
RECURSIVE DigitsLeq(_, _)
DigitsLeq(a, b) ==
    IF a = <<>> THEN TRUE
    ELSE IF DigitVal(Head(a)) # DigitVal(Head(b)) THEN DigitVal(Head(a)) < DigitVal(Head(b))
    ELSE DigitsLeq(Tail(a), Tail(b))

\* The digits d are written as std::to_string writes a number of that
\* sign: no leading zero, no "-0", within the range of int.
CanonicalDigits(d, neg) ==
    /\ Len(d) = 1 \/ d[1] # "0"
    /\ ~(neg /\ d = <<"0">>)
    /\ \/ Len(d) < Len(NegDigits(IntMin))
       \/ /\ Len(d) = Len(NegDigits(IntMin))
          /\ DigitsLeq(d, IF neg THEN NegDigits(IntMin) ELSE NegDigits(-IntMax))

CanonicalInteger(t) == CanonicalDigits(IF t[1] = "-" THEN Tail(t) ELSE t, t[1] = "-")

CanonicalTokens(toks, sym) ==
    /\ Shape(toks, sym).ok
    /\ IsSquare(Shape(toks, sym).widths)
    /\ \A k \in 1 .. Len(toks) : IsIntegerToken(toks[k]) => CanonicalInteger(toks[k])

\* s is a text of the grammar for a square matrix of at least one row,
\* without white space, every integer written canonically.
Canonical(s, sym) ==
    /\ s # <<>>
    /\ \A k \in 1 .. Len(s) : ~IsSpace(s[k])
    /\ CanonicalTokens(Tokens(s, 1), sym)

\* The value call i is made on.
Before(i) == IF i = 1 THEN given ELSE calls[i - 1].ret

IsParse(op) == op \in {"ConcreteSquareMatrix", "SymbolicSquareMatrix"}

ParserOf(kind) == IF kind = "concrete" THEN "ConcreteSquareMatrix" ELSE "SymbolicSquareMatrix"

\* Call i parsed a text and call i + 1 rendered the matrix it built.
ParsedThenRendered(i) ==
    /\ i + 1 <= Len(calls)
    /\ IsParse(calls[i].op)
    /\ calls[i].ret.kind # "error"
    /\ calls[i + 1].op = "toString"

\* s is a text the spec accepts: a text of the grammar whose rows, at least
\* one, are as wide as there are rows.
Accepted(s, sym) ==
    /\ GrammarAccepts(s, sym)
    /\ IsSquare(Shape(Tokens(s, 1), sym).widths)

\* C8: for every text T the grammar accepts (white space between tokens
\* allowed), for the integer parser and for the symbolic parser alike,
\* parsing T succeeds and toString() of the parsed matrix is T again.
C8_AcceptedTextRoundTrip ==
    \A i \in 1 .. Len(calls) :
        (/\ IsParse(calls[i].op)
         /\ Accepted(Before(i).text, calls[i].op = "SymbolicSquareMatrix"))
        => /\ calls[i].ret.kind # "error"
           /\ (i + 1 <= Len(calls) /\ calls[i + 1].op = "toString")
                 => calls[i + 1].ret.text = Before(i).text

\* C8, as it holds: for every canonical text T (a text of the grammar for
\* a square matrix of n >= 1 rows, without white space, every integer
\* written without leading zeros, never as "-0", and within the range of
\* int; variables for the symbolic parser only), both parsers build a
\* matrix from T and toString() of that matrix is T.
C8_CanonicalTextRoundTrip ==
    \A i \in 1 .. Len(calls) :
        (/\ IsParse(calls[i].op)
         /\ Canonical(Before(i).text, calls[i].op = "SymbolicSquareMatrix"))
        => /\ calls[i].ret.kind # "error"
           /\ (i + 1 <= Len(calls) /\ calls[i + 1].op = "toString")
                 => calls[i + 1].ret.text = Before(i).text

\* A canonical text of a 2 x 2 matrix with a negative cell was parsed by
\* the integer parser, and the matrix was rendered.
C8_Witness ==
    /\ given.kind = "text"
    /\ ParsedThenRendered(1)
    /\ calls[1].op = "ConcreteSquareMatrix"
    /\ calls[1].ret.m.n = 2
    /\ Canonical(given.text, FALSE)
    /\ \E k \in 1 .. Len(given.text) : given.text[k] = "-"

\* C9: for every concrete matrix M with n >= 1, any integer cells, the
\* integer parser builds from M.toString() a matrix equal to M with the
\* same toString(); likewise the symbolic parser for every symbolic matrix
\* whose cells are integers or single letters.
C9_RenderedMatrixRoundTrip ==
    \A i \in 1 .. Len(calls) :
        (/\ i + 1 <= Len(calls)
         /\ calls[i].op = "toString"
         /\ Before(i).m.n >= 1
         /\ calls[i + 1].op = ParserOf(Before(i).kind))
        => /\ calls[i + 1].ret.kind = Before(i).kind
           /\ calls[i + 1].ret.m = Before(i).m
           /\ IF Before(i).kind = "concrete"
                THEN MatrixEq(calls[i + 1].ret.m, Before(i).m)
                ELSE SymbolicEq(calls[i + 1].ret.m, Before(i).m)
           /\ (i + 2 <= Len(calls) /\ calls[i + 2].op = "toString")
                 => calls[i + 2].ret.text = calls[i].ret.text

\* A 3 x 3 symbolic matrix with variables and a negative integer was
\* rendered, parsed by the symbolic parser, and rendered again.
C9_Witness ==
    /\ given.kind = "symbolic"
    /\ given.m.n = 3
    /\ \E r, c \in 1 .. 3 : given.m.elements[r][c].kind = "var"
    /\ \E r, c \in 1 .. 3 :
          given.m.elements[r][c].kind = "int" /\ given.m.elements[r][c].t < 0
    /\ Len(calls) = 3
    /\ calls[1].op = "toString"
    /\ calls[2].op = "SymbolicSquareMatrix"
    /\ calls[3].op = "toString"

\* C10: for every matrix M (concrete or symbolic, any n), cell (i, j) of
\* M.transpose() is cell (j, i) of M, M.transpose().transpose() equals M,
\* and the call leaves M as it was.
C10_TransposeInvolution ==
    \A i \in 1 .. Len(calls) :
        calls[i].op = "transpose"
        => /\ calls[i].self = Before(i)
           /\ calls[i].ret.kind = Before(i).kind
           /\ calls[i].ret.m.n = Before(i).m.n
           /\ Len(calls[i].ret.m.elements) = Before(i).m.n
           /\ \A r \in 1 .. Before(i).m.n :
                 /\ Len(calls[i].ret.m.elements[r]) = Before(i).m.n
                 /\ \A c \in 1 .. Before(i).m.n :
                       calls[i].ret.m.elements[r][c] = Before(i).m.elements[c][r]
           /\ (i >= 2 /\ calls[i - 1].op = "transpose")
                 => calls[i].ret.m = Before(i - 1).m

\* A 3 x 3 symbolic matrix that is not symmetric was transposed twice.
C10_Witness ==
    /\ given.kind = "symbolic"
    /\ given.m.n = 3
    /\ given.m.elements[1][2] # given.m.elements[2][1]
    /\ Len(calls) >= 2
    /\ calls[1].op = "transpose"
    /\ calls[2].op = "transpose"

(***************************************************************************)
(* Algebraic identities of the operators.                                  *)
(***************************************************************************)
\* C11: for every concrete matrix M and every worker count, M - M is a
\* matrix of the size of M all of whose cells are 0.
C11_SelfDifferenceIsZero ==
    (mainpc = "returned" /\ call.op = "-" /\ call.form = "binary" /\ call.rhs = "m1") =>
        /\ objs.ret.n = old.m1.n
        /\ \A i \in 1 .. old.m1.n : \A j \in 1 .. old.m1.n :
               objs.ret.elements[i][j] = IntElement(0)
\* C12: for concrete matrices A and B of the same size and every worker
\* count, A + B and B + A are equal.
C12_PlusCommutes ==
    (mainpc = "returned" /\ call.this = "ret2") => MatrixEq(objs.ret, objs.ret2)
(***************************************************************************)
(* Flattened-block addressing.                                             *)
(***************************************************************************)
BlockCalls == {i \in 1 .. Len(calls) : calls[i].op = "block"}

\* The cell of m at flattened index k: row k div n, column k mod n.
CellAt(m, k) == m.elements[(k \div m.n) + 1][(k % m.n) + 1]

\* C13: block(0, n*n) is the full row-major flattening of the matrix (its
\* element k is the cell in row k div n, column k mod n), and block(k, 1)
\* is the one cell at flattened index k, for 0 <= k < n*n.
C13_BlockFlattens ==
    \A i \in BlockCalls :
        LET m     == calls[i].self.m
            start == calls[i].args[1]
            step  == calls[i].args[2]
            ret   == calls[i].ret
        IN  /\ (start = 0 /\ step = m.n * m.n) =>
                  /\ ret.kind = "cells"
                  /\ Len(ret.cells) = m.n * m.n
                  /\ \A k \in 0 .. (m.n * m.n - 1) : ret.cells[k + 1] = CellAt(m, k)
            /\ (start < m.n * m.n /\ step = 1) =>
                  /\ ret.kind = "cells"
                  /\ ret.cells = <<CellAt(m, start)>>

\* block(0, 9) has returned the nine cells of a 3 x 3 symbolic matrix in
\* which eight cells are different.
C13_Witness ==
    \E i \in BlockCalls :
        /\ calls[i].self.kind = "symbolic"
        /\ calls[i].self.m.n = 3
        /\ Cardinality({CellAt(calls[i].self.m, k) : k \in 0 .. 8}) = 8
        /\ calls[i].args = <<0, 9>>
        /\ Len(calls[i].ret.cells) = 9

\* C14: block(start, step) throws out_of_range whenever start > n*n or
\* step > n*n, step = 0 with start > n*n included, and block(start, 0) with
\* start <= n*n returns the empty sequence.
C14_BlockRangeChecked ==
    \A i \in BlockCalls :
        LET m     == calls[i].self.m
            start == calls[i].args[1]
            step  == calls[i].args[2]
            ret   == calls[i].ret
        IN  /\ (start > m.n * m.n \/ step > m.n * m.n) =>
                  /\ ret.kind = "error"
                  /\ ret.err \in {"out_of_range: start", "out_of_range: step"}
            /\ (step = 0 /\ start <= m.n * m.n) => ret = CellsValue(<<>>)

\* block(5, 0) has thrown on a 2 x 2 matrix.
C14_Witness ==
    \E i \in BlockCalls :
        /\ calls[i].self.m.n = 2
        /\ calls[i].args = <<5, 0>>
        /\ calls[i].ret.kind = "error"
(***************************************************************************)
(* Multiplication and division.                                            *)
(***************************************************************************)
\* f[1].t * g[1].t + ... + f[k].t * g[k].t
RECURSIVE DotUpTo(_, _, _)
DotUpTo(f, g, k) ==
    IF k = 0 THEN 0 ELSE DotUpTo(f, g, k - 1) + f[k].t * g[k].t

RowOf(m, i) == m.elements[i]

ColumnOf(m, j) == [k \in 1 .. m.n |-> m.elements[k][j]]

IsIdentity(m) ==
    \A i, j \in 1 .. m.n : m.elements[i][j].t = (IF i = j THEN 1 ELSE 0)

\* C15: A / B is A * transpose(B): its cell (i,j) is the sum over k of
\* A[i][k] * B[j][k]; so M / M is M * transpose(M), whatever M is.
C15_DivideIsTimesTranspose ==
    (mainpc = "returned" /\ call.op = "/") =>
        LET A == old.m1
            B == old[call.rhs]
        IN  /\ This.n = A.n
            /\ \A i, j \in 1 .. A.n :
                  This.elements[i][j] = IntElement(DotUpTo(RowOf(A, i), RowOf(B, j), A.n))
            /\ This = Product(A, Transpose(B))

\* M / M has returned for a 3 x 3 matrix M and is not the identity matrix.
C15_Witness ==
    /\ mainpc = "returned"
    /\ call.op = "/"
    /\ call.form = "binary"
    /\ call.rhs = "m1"
    /\ old.m1.n = 3
    /\ ~IsIdentity(objs.ret)

\* C16: after A *= B the cell (i,j) of A is the sum over k of
\* oldA[i][k] * B[k][j], also when B is the same object as A.
C16_TimesAssignIsRowByColumn ==
    (mainpc = "returned" /\ call.op = "*" /\ call.form = "inplace") =>
        LET A == old.m1
            B == old[call.rhs]
        IN  /\ objs.m1.n = A.n
            /\ \A i, j \in 1 .. A.n :
                  objs.m1.elements[i][j] =
                      IntElement(DotUpTo(RowOf(A, i), ColumnOf(B, j), A.n))

\* M *= M has returned for a 3 x 3 matrix M.
C16_Witness ==
    /\ mainpc = "returned"
    /\ call.op = "*"
    /\ call.form = "inplace"
    /\ call.rhs = "m1"
    /\ old.m1.n = 3
    /\ objs.m1 # old.m1
(***************************************************************************)
(* Evaluation under a binding.                                             *)
(***************************************************************************)
EvaluateCalls == {i \in 1 .. Len(calls) : calls[i].op = "evaluate"}

AllBound(m, val) ==
    \A r, c \in 1 .. m.n :
        m.elements[r][c].kind = "var" => m.elements[r][c].t \in DOMAIN val

\* C17: evaluate(binding) of a symbolic matrix all of whose variables are
\* bound returns the concrete matrix of the same size whose cell is the
\* literal, or the value the binding gives the cell's name; evaluate of a
\* concrete matrix returns an equal matrix whatever the binding is.  The
\* matrix evaluate was called on and the binding are as they were.
C17_EvaluateSubstitutes ==
    \A i \in EvaluateCalls :
        LET m   == Before(i).m
            val == calls[i].args[1]
            ret == calls[i].ret
        IN  /\ (Before(i).kind = "symbolic" /\ AllBound(m, val)) =>
                  /\ ret.kind = "concrete"
                  /\ ret.m.n = m.n
                  /\ \A r, c \in 1 .. m.n :
                        ret.m.elements[r][c] =
                            IF m.elements[r][c].kind = "int" THEN m.elements[r][c]
                            ELSE IntElement(val[m.elements[r][c].t])
            /\ Before(i).kind = "concrete" => (ret.kind = "concrete" /\ ret.m = m)
            /\ calls[i].self = Before(i)
            /\ val \in Valuations

\* A 3 x 3 symbolic matrix with four different variables has been
\* evaluated under a binding of all four, two of them to different values.
C17_Witness ==
    \E i \in EvaluateCalls :
        /\ Before(i).kind = "symbolic"
        /\ Before(i).m.n = 3
        /\ \A name \in VarNames : \E r, c \in 1 .. 3 :
              Before(i).m.elements[r][c] = VariableElement(name)
        /\ DOMAIN calls[i].args[1] = VarNames
        /\ calls[i].args[1]["a"] # calls[i].args[1]["Z"]
        /\ calls[i].ret.kind = "concrete"
(***************************************************************************)
(* Composite matrices.                                                     *)
(***************************************************************************)
\* Whatever the interleaving of the tasks, an operator call leaves the
\* matrix, or throws the exception, that OperatorResult gives for its
\* operands and n_threads.
OperatorIsFunction ==
    (mainpc \in {"returned", "threw"}) =>
        LET left == IF call.this = "ret2" THEN old.m2 ELSE old.m1
            r    == OperatorResult(call.op, left, old[call.rhs], n_threads)
        IN  IF mainpc = "threw" THEN call.err = r.err
            ELSE r.err = "" /\ This = r.m
\* getRowSize(): a composite has the size of its first operand.
RECURSIVE RowSize(_)
RowSize(e) == IF e.node = "leaf" THEN e.m.n ELSE RowSize(e.oprnd1)

\* Some leaf of e has a variable val does not bind, or the operands of
\* some node of e differ in size.
RECURSIVE Fails(_, _)
Fails(e, val) ==
    IF e.node = "leaf" THEN e.kind = "symbolic" /\ ~AllBound(e.m, val)
    ELSE \/ Fails(e.oprnd1, val)
         \/ Fails(e.oprnd2, val)
         \/ RowSize(e.oprnd1) # RowSize(e.oprnd2)

\* The exceptions the evaluation of e can end in.
RECURSIVE Failures(_, _)
Failures(e, val) ==
    IF e.node = "leaf"
      THEN IF Fails(e, val) THEN {"Undefined variable."} ELSE {}
    ELSE Failures(e.oprnd1, val) \cup Failures(e.oprnd2, val)
           \cup (IF ~Fails(e.oprnd1, val) /\ ~Fails(e.oprnd2, val)
                     /\ RowSize(e.oprnd1) # RowSize(e.oprnd2)
                    THEN {MismatchMessage(e.op_char)} ELSE {})

\* m with every variable replaced by its value under val.
Substituted(m, val) ==
    [n |-> m.n,
     elements |-> [r \in 1 .. m.n |-> [c \in 1 .. m.n |->
                     IF m.elements[r][c].kind = "int" THEN m.elements[r][c]
                     ELSE IntElement(val[m.elements[r][c].t])]]]

\* The matrix e stands for under val when nothing fails: at a node, what
\* the node's operator makes of the matrices of its two operands.
RECURSIVE ExprMatrix(_, _, _)
ExprMatrix(e, val, nt) ==
    IF e.node = "leaf"
      THEN IF e.kind = "symbolic" THEN Substituted(e.m, val) ELSE e.m
    ELSE OperatorResult(e.op_char, ExprMatrix(e.oprnd1, val, nt),
                        ExprMatrix(e.oprnd2, val, nt), nt).m

\* C18: evaluate of a composite returns what its operator makes of the
\* evaluated left and right operands, operands that are composites being
\* evaluated the same way; it throws, returning no matrix, when a leaf has
\* a variable the binding leaves out or the operands of a node differ in
\* size, and the exception of an operand is the one the caller gets.
C18_CompositeEvaluates ==
    \A i \in EvaluateCalls :
        Before(i).kind = "composite" =>
            LET e   == Before(i).m
                val == calls[i].args[1]
                ret == calls[i].ret
            IN  /\ Fails(e, val) =>
                      /\ ret.kind = "error"
                      /\ ret.m = EmptyMatrix
                      /\ ret.err \in Failures(e, val)
                /\ ~Fails(e, val) =>
                      ret = MatrixValue("concrete", ExprMatrix(e, val, n_threads))
                /\ (Fails(e.oprnd1, val) \/ Fails(e.oprnd2, val)) =>
                      ret.err \in Failures(e.oprnd1, val) \cup Failures(e.oprnd2, val)
                /\ calls[i].self = Before(i)

\* A composite whose first operand is the composite of a symbolic and a
\* concrete 2 x 2 matrix has been evaluated to a matrix.
C18_Witness ==
    \E i \in EvaluateCalls :
        /\ Before(i).kind = "composite"
        /\ Before(i).m.op_char = "-"
        /\ Before(i).m.oprnd1.node = "composite"
        /\ Before(i).m.oprnd1.oprnd1 = SymbolicLeaf(2)
        /\ DOMAIN calls[i].args[1] = {"a", "b"}
        /\ calls[i].args[1]["a"] # calls[i].args[1]["b"]
        /\ calls[i].ret.kind = "concrete"
(***************************************************************************)
(* What the parsers reject.                                                *)
(***************************************************************************)
ParseCalls == {i \in 1 .. Len(calls) : IsParse(calls[i].op)}

\* what() of the std::invalid_argument the string constructors throw
ParseErrors ==
    {"Invalid string (first bracket).", "Invalid string.", "Invalid string (row size).",
     "Invalid string (elements size).", "Invalid string (bad stream).",
     "Invalid string (last bracket)."}

\* C19: a text is accepted by either parser only if all its rows have the
\* same number of cells and there are as many rows as a row has cells; a
\* text of the grammar whose rows are ragged or not as many as they are
\* wide (4 rows of 3 cells) is rejected with the parse error and no matrix
\* is constructed.
C19_OnlySquareTextsParse ==
    \A i \in ParseCalls :
        LET s     == Before(i).text
            sym   == calls[i].op = "SymbolicSquareMatrix"
            shape == Shape(Tokens(s, 1), sym)
            ret   == calls[i].ret
        IN  /\ (shape.ok /\ shape.widths # <<>> /\ ~IsSquare(shape.widths)) =>
                  /\ ret.kind = "error"
                  /\ ret.err \in ParseErrors
                  /\ ret.m = EmptyMatrix
            /\ ret.kind # "error" =>
                  /\ Len(ret.m.elements) = ret.m.n
                  /\ \A r \in 1 .. ret.m.n : Len(ret.m.elements[r]) = ret.m.n
                  /\ (shape.ok /\ shape.widths # <<>>) => IsSquare(shape.widths)

\* The symbolic parser has rejected a text of 4 rows of 3 cells.
C19_Witness ==
    \E i \in ParseCalls :
        /\ calls[i].op = "SymbolicSquareMatrix"
        /\ Shape(Tokens(Before(i).text, 1), TRUE) = [ok |-> TRUE, widths |-> <<3, 3, 3, 3>>]
        /\ calls[i].ret.kind = "error"

C23_OnlyLeftOperandChanges ==
    /\ objs.m2 = old.m2
    /\ call.form = "binary" => objs.m1 = old.m1
    /\ call.form = "inplace" => (objs.ret = old.ret /\ objs.ret2 = old.ret2)
    /\ call.this = "ret2" => objs.ret = old.ret

\* A *= B has changed a 3 x 3 matrix A, B being another object.
C23_Witness ==
    /\ mainpc = "returned"
    /\ call.op = "*"
    /\ call.form = "inplace"
    /\ call.rhs = "m2"
    /\ old.m1.n = 3
    /\ objs.m1 # old.m1
    /\ objs.m2 = old.m2
\* C27: an in-place elementwise operation whose right operand is the left
\* operand itself reads only values from before any write: A += A leaves
\* every cell at twice its old value and A -= A leaves every cell at 0, in
\* every interleaving.
C27_SelfAssignReadsOldValues ==
    (mainpc = "returned" /\ Elementwise /\ call.form = "inplace" /\ call.rhs = "m1") =>
        \A i, j \in 1 .. old.m1.n :
            objs.m1.elements[i][j] =
                IF call.op = "+" THEN IntElement(2 * old.m1.elements[i][j].t)
                ELSE IntElement(0)

\* C28: at most one task at a time is in the write-back section: a task
\* writes its results only while it holds mtx, mtx is released on every
\* path out of the wait loop and of the write-back, and no task waits for
\* mtx forever.
C28_WriteBackUnderMutex ==
    /\ [](\A t, u \in Threads :
            /\ (tpc[t] \in {"write", "unlock"} /\ tpc[u] \in {"write", "unlock"}) => t = u
            /\ tpc[t] \in {"check", "write", "unlock"} => mtx = t + 1
            /\ mtx = t + 1 => tpc[t] \in {"check", "write", "unlock"})
    /\ [][mainpc = "spawn" =>
            /\ \A t \in Threads :
                  written'[t] # written[t] => (mtx = t + 1 /\ mtx' = t + 1)
            /\ objs' # objs =>
                  \E t \in Threads : tpc[t] = "write" /\ mtx = t + 1 /\ mtx' = t + 1]_vars
    /\ \A t \in Threads : []<>(tpc[t] \notin {"wait", "passed"})
    /\ []<>(mtx = 0)

\* One task is writing its results back while another, past the wait loop,
\* is waiting for the mutex.
C28_Witness ==
    \E t, u \in Threads :
        /\ tpc[t] = "unlock"
        /\ written[t] # {}
        /\ tpc[u] = "passed"

\* C26: block(start, step) with step > 0, start <= n*n and step <= n*n but
\* start + step > n*n throws out_of_range (from unrolled.at) and returns no
\* shorter sequence; no task of the block engine asks for such a block, so
\* no task fails.
C26_NoShortBlock ==
    LET total == This.n * This.n
    IN  /\ \A start, step \in 0 .. (total + 1) :
              (step > 0 /\ start <= total /\ step <= total /\ start + step > total) =>
                  Block(This, start, step) = [err |-> "out_of_range: at", ptrs |-> <<>>]
        /\ mainpc # "terminated"
        /\ \A t \in Threads :
              /\ tpc[t] # "threw"
              /\ (mainpc = "spawn" /\ HasTurn(t)) =>
                    blocksz * myturn[t] + blocksz <= total

\* The task of turn 1 has fetched the block [2, 4) of a 2 x 2 matrix, which
\* ends at the last cell.
C26_Witness ==
    \E t \in Threads :
        /\ mainpc = "spawn"
        /\ This.n = 2
        /\ myturn[t] = 1
        /\ tpc[t] = "compute"
        /\ block_lhs[t] = <<2, 3>>
(***************************************************************************)
(* The two string constructors compared.                                   *)
(***************************************************************************)
\* What the other string constructor makes of the text call i parsed.
OtherParse(i) ==
    IF calls[i].op = "ConcreteSquareMatrix" THEN ParseSymbolic(Before(i).text)
    ELSE ParseConcrete(Before(i).text)

\* s has no letter: whatever its cells are, none is a variable.
NoLetter(s) == \A k \in 1 .. Len(s) : ~IsAlpha(s[k])

\* C29: on every text whose cells are all integers the integer parser and
\* the symbolic parser agree: both reject it, or both accept it and build
\* matrices of the same size and the same toString(); white space before,
\* between and after the tokens included.
C29_ParsersAgreeOnIntegers ==
    \A i \in ParseCalls :
        (GrammarAccepts(Before(i).text, FALSE) \/ NoLetter(Before(i).text)) =>
            /\ (calls[i].ret.kind = "error") <=> (OtherParse(i).err # "")
            /\ calls[i].ret.kind # "error" =>
                  /\ calls[i].ret.m.n = OtherParse(i).m.n
                  /\ toString(calls[i].ret.m) = toString(OtherParse(i).m)
(***************************************************************************)
(* Properties of main().                                                   *)
(***************************************************************************)
\* C22: when n_threads is zero main() returns a status other than zero and
\* has done nothing else: the unit tests have not run, no line was read, the
\* stack and the valuation map are empty and no operator was called.
C22_NoThreadsNoStart ==
    n_threads = 0 =>
       /\ stage \in {"start", "returned"}
       /\ stage = "returned" => mainres # 0
       /\ out \in {NoOutput, Said("Exiting.")}
       /\ buffer = <<>>
       /\ mstack = <<>>
       /\ valuation = <<>>
       /\ mainpc = "idle"
       /\ call = NoCall

C22_Witness ==
    /\ n_threads = 0
    /\ stage = "returned"
    /\ mainres = -1

\* C30: in the loop, an operator line read with fewer than two entries on
\* the stack leaves the stack as it is; read with two or more, it takes
\* the two on top away and pushes one composite whose first operand is
\* what was on top and whose second operand is what was under it, so the
\* stack is one entry shorter.  A line = leaves the stack and the valuation
\* map as they are, whether evaluate() returns or throws, and the loop
\* goes on.
C30_OperatorAndEvaluateLines ==
    [][stage = "loop" =>
          /\ (buffer' \in OperatorLines /\ Len(mstack) < 2) => mstack' = mstack
          /\ (buffer' \in OperatorLines /\ Len(mstack) >= 2) =>
                /\ Len(mstack') = Len(mstack) - 1
                /\ Pop(mstack') = Pop(Pop(mstack))
                /\ Top(mstack').node = "composite"
                /\ Top(mstack').op_char = buffer'[1]
                /\ Top(mstack').oprnd1 = Top(mstack)
                /\ Top(mstack').oprnd2 = Top(Pop(mstack))
          /\ buffer' = CmdEvaluate =>
                /\ mstack' = mstack
                /\ valuation' = valuation
                /\ stage' = "loop"]_vars

\* An operator line has made a composite of two entries, and the line =
\* read after it has printed what evaluate() threw.
C30_Witness ==
    /\ stage = "loop"
    /\ buffer = CmdEvaluate
    /\ mstack # <<>>
    /\ Top(mstack).node = "composite"
    /\ Top(mstack).oprnd1 # Top(mstack).oprnd2
    /\ out.msg \notin {"Result : ", "Stack is empty."}

C25_DivisionIsFloored ==
    \A i \in 1 .. Len(calls) :
        calls[i].op \in {"/", "/="} =>
            LET a == Before(i).cells[1].t
                b == calls[i].args[1].t
            IN  /\ (b # 0 /\ ~(a = IntMin /\ b = -1)) =>
                      /\ calls[i].ret.kind = "cells"
                      /\ calls[i].ret.cells[1].t = a \div b
                      /\ calls[i].op = "/=" => calls[i].self.cells[1].t = a \div b
                      /\ calls[i].op = "/" => calls[i].self = Before(i)
                /\ b = 0 =>
                      /\ calls[i].ret = ErrorValue("Divisor cannot be zero.")
                      /\ calls[i].self = Before(i)

(***************************************************************************)
(* Properties of the shape of a matrix object.                             *)
(***************************************************************************)
\* m has n rows of n cells each, n being its row size.
WellFormed(m) ==
    /\ Len(m.elements) = m.n
    /\ \A r \in 1 .. Len(m.elements) : Len(m.elements[r]) = m.n

Shaped(v) == IsMatrix(v) => WellFormed(v.m)

\* C21: whatever constructor built it and whatever assignments, transpose(),
\* evaluate() and assigning operators were called since, a matrix (the
\* object called on, the argument, and what is returned) has exactly n rows
\* of exactly n cells, n being its row size; and the constructor from a
\* size and rows throws a shape error when the number of rows or the
\* length of a row is not the size.
C21_AlwaysSquare ==
    /\ Shaped(given)
    /\ \A i \in 1 .. Len(calls) :
          /\ Shaped(calls[i].self)
          /\ Shaped(calls[i].ret)
          /\ calls[i].op \in {"=", "= move", "+", "-", "*", "/"} => Shaped(calls[i].args[1])
          /\ calls[i].op = "structural" =>
                IF WellFormed(given.m)
                  THEN calls[i].ret = MatrixValue("concrete", given.m)
                  ELSE /\ calls[i].ret.kind = "error"
                       /\ calls[i].ret.err \in {"Not a squarematrix (invalid n).",
                                                "Not a squarematrix (invalid row)."}

\* A matrix built from three rows of three cells has been multiplied by
\* itself and then moved from: the source is empty, the target is 3 x 3.
C21_Witness ==
    /\ Len(calls) = 3
    /\ calls[1].op = "structural"
    /\ calls[2].op = "*"
    /\ calls[3].op = "move"
    /\ calls[3].self.m.n = 0
    /\ calls[3].ret.m.n = 3
    /\ Len(calls[3].ret.m.elements[3]) = 3

====
